---- MODULE Spec2Model ----
(***************************************************************************)
(* A model of torch_em's DefaultTrainer (trainer/default_trainer.py): the  *)
(* fit loop (train pass, validation pass, scheduler step, best/latest      *)
(* checkpoints, early stopping), save_checkpoint / load_checkpoint and     *)
(* from_checkpoint, over a checkpoint folder that outlives the process.    *)
(*                                                                         *)
(* Numeric state of the model, the optimizer, the gradient scaler and the  *)
(* scheduler is abstracted to the number of update steps it has received.  *)
(* Validation metrics are naturals 0..MaxMetric; np.inf is Inf, one above. *)
(***************************************************************************)
EXTENDS Integers, FiniteSets, Sequences, TLC

\* ---------------------------------------------------------------- bounds
MaxIterations == 4   \* largest value the iteration counter is driven to
MaxBatches    == 2   \* largest len(train_loader)
MaxMetric     == 1   \* validation metrics are 0..MaxMetric
MaxPatience   == 0   \* early_stopping is None or 0..MaxPatience
MaxCalls      == 2   \* calls of fit / save_checkpoint / load_checkpoint / from_checkpoint
MaxRestarts   == 1   \* process terminations followed by a new trainer
MaxEnhancers  == 1   \* largest number of enhancers evaluated
MaxForests    == 2   \* largest number of ilastik projects (forests)
MaxSlices     == 2   \* largest data.shape[0] of a volume
MaxPaths      == 3   \* largest number of forests in the checkpoint folder
MaxThreads    == 2   \* largest thread pool
MaxEvals      == 2   \* calls of evaluate_enhancers

\* ------------------------------------------------------------- constants
None == 0 - 1                 \* Python's None for an optional number
Empty == [k \in {} |-> 0]     \* the empty dict
Inf  == MaxMetric + 1         \* np.inf: above every metric
Metrics == 0 .. MaxMetric
Slots == {"best", "latest"}   \* checkpoint names, files <name>.pt

\* The components a trainer cannot train without, and the two of them that
\* __init__ inspects.
Components == {"train_loader", "val_loader", "model", "loss", "optimizer",
               "metric", "device"}
Loaders == {"train_loader", "val_loader"}

\* A checkpoint file: absent, opened for writing and not yet complete, or
\* a complete serialized save_dict.
Absent  == [kind |-> "absent"]
Partial == [kind |-> "partial"]
Complete(d) == [kind |-> "complete", data |-> d]

VARIABLES
    pc,               \* where the process is: dead, idle, the steps of fit, done
    len_train_loader, \* len(self.train_loader), batches per epoch
    early_stopping,   \* self.early_stopping: None or a patience
    mixed_precision,  \* self.mixed_precision; self.scaler is set iff TRUE
    lr_scheduler,     \* TRUE iff self.lr_scheduler is not None
    unset,            \* the required component that is None, or "none"
    iteration,        \* self._iteration
    epoch,            \* self._epoch
    best_epoch,       \* self._best_epoch
    self_best_metric, \* self.best_metric, set by load_checkpoint only
    max_iteration,    \* self.max_iteration
    max_epoch,        \* self.max_epoch
    init_data,        \* self.init_data, the manifest built by _build_init
    model_state,      \* model.state_dict()
    optimizer_state,  \* optimizer.state_dict()
    scaler_state,     \* scaler.state_dict(), None without a scaler
    scheduler_state,  \* lr_scheduler.state_dict(), None without a scheduler
    best_metric,      \* fit's local best_metric
    current_metric,   \* fit's local current_metric
    epochs_left,      \* what is left of range(train_epochs)
    batch,            \* position of the batch loop in train_loader
    saving,           \* the save_checkpoint call in progress
    files,            \* the checkpoint folder: slot name -> file
    calls,            \* number of API calls made so far
    restarts,         \* number of process terminations so far
    run,              \* history of the current fit call
    saved,            \* history: trainer state at the last save of a slot
    last,             \* history: outcome of the last operation
    load,             \* the Deserializer: its init_data (manifest) and device
    loaded,           \* history: the last Deserializer call and its outcome
    ev_pc,            \* where evaluate_enhancers is
    args,             \* its arguments: data, labels, enhancers, forests, is2d
    save_path,        \* its save_path argument: "none" or the cache file
    store,            \* the array store at the cache file: name -> array
    handles,          \* number of open handles on the cache file
    chunk_z,          \* z of the chunk being processed, None for the whole
    forest_i,         \* position of process_chunk's loop over the forests
    enhancer_j,       \* position of its loop over the enhancers
    rf_pred,          \* process_chunk's rf_pred
    pred,             \* process_chunk's pred
    scores,           \* process_chunk's scores array
    scores_z,         \* the per-slice tables collected so far
    outcome,          \* what the last call returned or raised
    evals,            \* number of calls of evaluate_enhancers so far
    seen,             \* history: predictor calls, lookups and scoring passes
    predictions,      \* what load_predictions returned last
    vis_pc,           \* where visualize_pretrained_rfs is
    rf_paths,         \* its selected forest paths
    n_threads,        \* the size of its thread pool
    futures,          \* the pool's tasks, one per selected path
    preds,            \* the predictions collected so far
    images            \* the images added to the viewer, with their names

config   == <<len_train_loader, early_stopping, mixed_precision, lr_scheduler,
             unset>>
counters == <<iteration, epoch, best_epoch, self_best_metric>>
limits   == <<max_iteration, max_epoch, init_data>>
states   == <<model_state, optimizer_state, scaler_state, scheduler_state>>
locals   == <<best_metric, current_metric, epochs_left, batch, saving>>
trainer  == <<pc, config, counters, limits, states, locals, files, calls,
             restarts, run, saved, last>>
deserializer == <<load, loaded>>
position == <<chunk_z, forest_i, enhancer_j>>
evaluation == <<ev_pc, args, save_path, store, handles, position, rf_pred, pred,
                scores, scores_z, outcome, evals, seen>>
viewer   == <<vis_pc, rf_paths, n_threads, futures, preds, images>>
outside  == <<deserializer, evaluation, predictions, viewer>>
vars == <<trainer, outside>>

Min(a, b) == IF a < b THEN a ELSE b

\* ----------------------------------------------------------- pure helpers

\* epochs = int(np.ceil(float(iterations) / len(self.train_loader)))
CeilDiv(iterations, n) == (iterations + n - 1) \div n

\* A budget that forgets the iterations already done.
MaxIterationAbsolute(start, iterations) == iterations

\* self.max_iteration = self._iteration + iterations
MaxIteration(start, iterations) == start + iterations

\* _build_init: the manifest of the current components; the scheduler's
\* entries exist only when there is a scheduler.
BuildInit(n, es, mp, sched) ==
    [train_loader_kwargs |-> n, early_stopping |-> es, mixed_precision |-> mp]
    @@ (IF sched THEN "lr_scheduler_class" :> "scheduler" ELSE <<>>)

\* _get_trainer_kwargs over a Deserializer of manifest init: the constructor
\* arguments; an optional component without an entry resolves to None.
GetTrainerKwargs(init) ==
    [len_train_loader |-> init["train_loader_kwargs"],
     early_stopping   |-> init["early_stopping"],
     mixed_precision  |-> init["mixed_precision"],
     lr_scheduler     |-> "lr_scheduler_class" \in DOMAIN init]

\* A save_dict that records the current epoch as the best epoch.
SaveDictBestIsCurrent(bm) ==
    [iteration |-> iteration, epoch |-> epoch, best_epoch |-> epoch,
     best_metric |-> bm, model_state |-> model_state,
     optimizer_state |-> optimizer_state, init |-> init_data]
    @@ (IF mixed_precision THEN "scaler_state" :> scaler_state ELSE <<>>)
    @@ (IF lr_scheduler THEN "scheduler_state" :> scheduler_state ELSE <<>>)

\* The dictionary save_checkpoint(name, best_metric) serializes.
SaveDict(bm) ==
    [iteration |-> iteration, epoch |-> epoch, best_epoch |-> best_epoch,
     best_metric |-> bm, model_state |-> model_state,
     optimizer_state |-> optimizer_state, init |-> init_data]
    @@ (IF mixed_precision THEN "scaler_state" :> scaler_state ELSE <<>>)
    @@ (IF lr_scheduler THEN "scheduler_state" :> scheduler_state ELSE <<>>)

\* The trainer's restorable state, as one record.
Trainer ==
    [iteration |-> iteration, epoch |-> epoch, best_epoch |-> best_epoch,
     best_metric |-> self_best_metric, model_state |-> model_state,
     optimizer_state |-> optimizer_state, scaler_state |-> scaler_state,
     scheduler_state |-> scheduler_state]

\* The keys load_checkpoint reads from save_dict, in the order it reads them.
LoadOrder(hasScaler, hasScheduler) ==
    <<"iteration", "epoch", "best_epoch", "best_metric", "model_state",
      "optimizer_state">>
    \o (IF hasScaler THEN <<"scaler_state">> ELSE <<>>)
    \o (IF hasScheduler THEN <<"scheduler_state">> ELSE <<>>)

\* Position of the first key of order that d lacks; 0 when d has them all.
FirstMissing(d, order) ==
    LET miss == {i \in 1 .. Len(order) : order[i] \notin DOMAIN d}
    IN  IF miss = {} THEN 0 ELSE CHOOSE i \in miss : \A j \in miss : i <= j

\* Position in order of the state that is loaded into component missing;
\* 0 when no key of order is.
FirstUnset(order, missing) ==
    LET key == CASE missing = "model" -> "model_state"
                 [] missing = "optimizer" -> "optimizer_state"
                 [] OTHER -> "none"
        at == {i \in 1 .. Len(order) : order[i] = key}
    IN  IF at = {} THEN 0 ELSE CHOOSE i \in at : TRUE

\* load_checkpoint's assignments from save_dict d onto trainer state t: each
\* key is read and applied in turn; a missing key raises KeyError there and
\* a component that is None raises AttributeError there, after the
\* assignments before it.
ApplySaveDict(d, t, hasScaler, hasScheduler, missing) ==
    LET order == LoadOrder(hasScaler, hasScheduler)
        nokey == FirstMissing(d, order)
        noobj == FirstUnset(order, missing)
        stop  == IF nokey = 0 THEN noobj
                 ELSE IF noobj = 0 THEN nokey ELSE Min(nokey, noobj)
        done(i) == stop = 0 \/ i < stop
    IN  [k \in DOMAIN t |->
            IF \E i \in 1 .. Len(order) : order[i] = k /\ done(i)
            THEN d[k] ELSE t[k]]
        @@ [result |-> IF stop = 0 THEN "ok"
                       ELSE IF stop = noobj THEN "AttributeError"
                       ELSE "KeyError"]

\* A load that raises when the slot file does not exist.
LoadCheckpointRaisesWhenAbsent(name, t, hasScaler, hasScheduler, missing) ==
    CASE files[name].kind \in {"absent", "partial"} -> t @@ [result |-> "LoadError"]
      [] OTHER -> ApplySaveDict(files[name].data, t, hasScaler, hasScheduler, missing)

\* load_checkpoint(checkpoint) for a slot name: a missing file warns and
\* returns, an incomplete file makes torch.load raise, otherwise the
\* save_dict is applied.
LoadCheckpoint(name, t, hasScaler, hasScheduler, missing) ==
    CASE files[name].kind = "absent"  -> t @@ [result |-> "warn"]
      [] files[name].kind = "partial" -> t @@ [result |-> "LoadError"]
      [] OTHER -> ApplySaveDict(files[name].data, t, hasScaler, hasScheduler, missing)

\* A check of the components that lets a trainer without a model through.
AssertionSkipsModel(missing) == missing \in Components \ {"model"}

\* The assertions that open _initialize: one of them fails when a component
\* is None.
AssertionFails(missing) == missing \in Components

\* A comparison that takes an equal metric for an improvement.
IsNotWorse(current, best) == current <= best

\* A comparison that takes any different metric for an improvement.
IsDifferent(current, best) == current # best

\* if current_metric < best_metric
IsImprovement(current, best) == current < best

\* A budget test that lets one more batch through.
BudgetExceeded(it, maxIt) == it > maxIt

\* if self._iteration >= self.max_iteration: break
BudgetReached(it, maxIt) == it >= maxIt

\* A patience that is already used up when it is merely reached.
EarlyStoppingFiresAtPatience(epochsSinceBest, patience) ==
    patience # None /\ epochsSinceBest >= patience

\* if epochs_since_best > self.early_stopping: break
EarlyStoppingFires(epochsSinceBest, patience) ==
    patience # None /\ epochsSinceBest > patience

\* ------------------------------------------------------------- histories
NoRun ==
    [I |-> 0, i0 |-> 0, e0 |-> 0, fresh |-> FALSE, resumed |-> FALSE,
     ckpt_best |-> Inf, cycles |-> 0, latest_writes |-> 0,
     best_writes |-> 0, min_seen |-> Inf, last_best |-> Inf,
     prev_best |-> Inf, sched0 |-> None,
     stopped_early |-> FALSE, active |-> FALSE]
NoSnapshot == [none |-> TRUE]
Quiet == [op |-> "step", slot |-> "none", result |-> "ok", before |-> NoSnapshot]

\* Nothing observed yet: per cache key the predictor invocations that
\* returned and the first array a request returned; of the current call the
\* last cache request, whether the forest prediction at hand was read from
\* the cache, the arrays handed to enhancers, the scores taken, the scoring
\* passes finished, the predictor and metric invocations, the times the
\* cache file was opened, the keys requested with the computation each
\* was requested for, the cache as the call found it, how often each
\* predictor was invoked for each pass without a cache, the number of
\* dimensions of every array passed to an enhancer or to the metric, and
\* these numbers and the table of the call before when that call began
\* with an empty cache and returned.
NoCalls ==
    [invoked |-> Empty, first |-> Empty, lookup |-> NoSnapshot, read |-> FALSE,
     handed |-> {}, scored |-> {}, passes |-> 0, calls |-> 0, opens |-> 0,
     requested |-> {}, before |-> Empty, uncached |-> Empty, shapes |-> {},
     prior |-> NoSnapshot]

\* ------------------------------------------------------------------ Init
Patiences == {None} \cup (0 .. MaxPatience)

\* __init__: the state of a newly constructed trainer.
Init ==
    /\ pc = "idle"
    /\ len_train_loader \in 1 .. MaxBatches
    /\ early_stopping \in Patiences
    /\ mixed_precision \in BOOLEAN
    /\ lr_scheduler \in BOOLEAN
    /\ unset \in {"none"} \cup (Components \ Loaders)
    /\ iteration = 0 /\ epoch = 0 /\ best_epoch = 0
    /\ self_best_metric = None
    /\ max_iteration = None /\ max_epoch = None /\ init_data = NoSnapshot
    /\ model_state = 0 /\ optimizer_state = 0
    /\ scaler_state = (IF mixed_precision THEN 0 ELSE None)
    /\ scheduler_state = (IF lr_scheduler THEN 0 ELSE None)
    /\ best_metric = Inf /\ current_metric = Inf
    /\ epochs_left = 0 /\ batch = 0
    /\ saving = NoSnapshot
    /\ files = [s \in Slots |-> Absent]
    /\ calls = 0
    /\ restarts = 0
    /\ run = NoRun
    /\ saved = [s \in Slots |-> NoSnapshot]
    /\ last = Quiet
    /\ load = NoSnapshot
    /\ loaded = NoSnapshot
    /\ ev_pc = "idle"
    /\ args = NoSnapshot
    /\ save_path = "none"
    /\ store = Empty
    /\ handles = 0
    /\ chunk_z = None /\ forest_i = 0 /\ enhancer_j = 0
    /\ rf_pred = NoSnapshot /\ pred = NoSnapshot
    /\ scores = NoSnapshot /\ scores_z = <<>>
    /\ outcome = NoSnapshot
    /\ evals = 0
    /\ seen = NoCalls
    /\ predictions = NoSnapshot
    /\ vis_pc = "idle"
    /\ rf_paths = <<>>
    /\ n_threads = 0
    /\ futures = <<>>
    /\ preds = <<>>
    /\ images = <<>>

\* --------------------------------------------------------------- actions
Callable == pc \in {"idle", "done"}

\* The assignments of a load result r to the trainer.
Restore(r) ==
    /\ iteration' = r.iteration
    /\ epoch' = r.epoch
    /\ best_epoch' = r.best_epoch
    /\ self_best_metric' = r.best_metric
    /\ model_state' = r.model_state
    /\ optimizer_state' = r.optimizer_state
    /\ scaler_state' = r.scaler_state
    /\ scheduler_state' = r.scheduler_state

\* fit(iterations, load_from_checkpoint) up to the first pass of its loop:
\* _initialize loads the checkpoint if one is named, derives max_iteration
\* and max_epoch, builds init_data and returns best_metric = np.inf.
Fit(iterations, ckpt) ==
    /\ Callable
    /\ calls < MaxCalls
    /\ calls' = calls + 1
    /\ LET r == IF AssertionFails(unset)
                THEN Trainer @@ [result |-> "AssertionError"]
                ELSE IF ckpt = "none" THEN Trainer @@ [result |-> "none"]
                ELSE LoadCheckpoint(ckpt, Trainer, mixed_precision, lr_scheduler,
                                    unset)
           raised == r.result \in {"AssertionError", "KeyError", "LoadError",
                                    "AttributeError"}
           epochs == CeilDiv(iterations, len_train_loader)
       IN  /\ r.iteration + iterations <= MaxIterations
           /\ Restore(r)
           /\ last' = [op |-> "fit", slot |-> ckpt, result |-> r.result,
                       before |-> IF ckpt = "none" THEN NoSnapshot ELSE Trainer]
           /\ IF raised
              THEN /\ pc' = "idle"
                   /\ run' = NoRun
                   /\ UNCHANGED <<limits, best_metric, epochs_left>>
              ELSE /\ max_iteration' = MaxIteration(r.iteration, iterations)
                   /\ max_epoch' = r.epoch + epochs
                   /\ init_data' = BuildInit(len_train_loader, early_stopping,
                                             mixed_precision, lr_scheduler)
                   /\ best_metric' = Inf
                   /\ epochs_left' = max_epoch' - r.epoch
                   /\ pc' = IF epochs_left' = 0 THEN "done" ELSE "train"
                   /\ run' = [NoRun EXCEPT
                                !.I = iterations, !.i0 = r.iteration, !.e0 = r.epoch,
                                !.fresh = (ckpt = "none" /\ Trainer.iteration = 0
                                           /\ Trainer.epoch = 0),
                                !.resumed = (r.result = "ok"),
                                !.ckpt_best = (IF r.result = "ok" THEN r.best_metric ELSE Inf),
                                !.cycles = (IF epochs_left' = 0 THEN 0 ELSE 1),
                                !.sched0 = r.scheduler_state,
                                !.active = TRUE]
    /\ batch' = 0
    /\ current_metric' = Inf
    /\ UNCHANGED <<config, saving, files, restarts, saved>>
    /\ UNCHANGED outside

\* One pass of the batch loop of _train_epoch_impl: forward, loss, backprop,
\* optimizer (and scaler) step, then the iteration counter and the budget.
TrainEpochImpl ==
    /\ pc = "train"
    /\ model_state' = model_state + 1
    /\ optimizer_state' = optimizer_state + 1
    /\ scaler_state' = (IF mixed_precision THEN scaler_state + 1 ELSE scaler_state)
    /\ iteration' = iteration + 1
    /\ IF BudgetReached(iteration', max_iteration) \/ batch + 1 = len_train_loader
       THEN pc' = "validate" /\ batch' = 0
       ELSE pc' = "train" /\ batch' = batch + 1
    /\ last' = Quiet
    /\ UNCHANGED <<config, epoch, best_epoch, self_best_metric, limits,
                   scheduler_state, best_metric, current_metric, epochs_left,
                   saving, files, calls, restarts, run, saved>>
    /\ UNCHANGED outside

\* current_metric = validate(): the mean metric over the validation loader.
ValidateImpl ==
    /\ pc = "validate"
    /\ \E m \in Metrics : current_metric' = m
    /\ pc' = "lr_step"
    /\ run' = [run EXCEPT !.min_seen = Min(@, current_metric')]
    /\ last' = Quiet
    /\ UNCHANGED <<config, counters, limits, states, best_metric, epochs_left,
                   batch, saving, files, calls, restarts, saved>>
    /\ UNCHANGED outside

\* A cycle that leaves the scheduler as it is.
LrSchedulerStepSkipped ==
    /\ pc = "lr_step"
    /\ pc' = "compare"
    /\ last' = Quiet
    /\ UNCHANGED <<config, counters, limits, states, locals, files, calls,
                   restarts, run, saved>>
    /\ UNCHANGED outside

\* if self.lr_scheduler is not None: self.lr_scheduler.step(current_metric)
LrSchedulerStep ==
    /\ pc = "lr_step"
    /\ scheduler_state' = (IF lr_scheduler THEN scheduler_state + 1 ELSE scheduler_state)
    /\ pc' = "compare"
    /\ last' = Quiet
    /\ UNCHANGED <<config, counters, limits, model_state, optimizer_state,
                   scaler_state, locals, files, calls, restarts, run, saved>>
    /\ UNCHANGED outside

\* An update of the best that records the 1-based number of the epoch.
UpdateBestAheadOfEpoch ==
    /\ pc = "compare"
    /\ IF IsImprovement(current_metric, best_metric)
       THEN /\ best_metric' = current_metric
            /\ best_epoch' = epoch + 1
            /\ saving' = [name |-> "best", best_metric |-> current_metric,
                          ret |-> "save_latest"]
            /\ pc' = "save_open"
       ELSE /\ pc' = "save_latest"
            /\ UNCHANGED <<best_metric, best_epoch, saving>>
    /\ last' = Quiet
    /\ UNCHANGED <<config, iteration, epoch, self_best_metric, limits, states,
                   current_metric, epochs_left, batch, files, calls, restarts,
                   run, saved>>
    /\ UNCHANGED outside

\* An update of the best that saves "latest" only when "best" was not saved.
UpdateBestElseLatest ==
    /\ pc = "compare"
    /\ IF IsImprovement(current_metric, best_metric)
       THEN /\ best_metric' = current_metric
            /\ best_epoch' = epoch
            /\ saving' = [name |-> "best", best_metric |-> current_metric,
                          ret |-> "early_stopping"]
            /\ pc' = "save_open"
       ELSE /\ pc' = "save_latest"
            /\ UNCHANGED <<best_metric, best_epoch, saving>>
    /\ last' = Quiet
    /\ UNCHANGED <<config, iteration, epoch, self_best_metric, limits, states,
                   current_metric, epochs_left, batch, files, calls, restarts,
                   run, saved>>
    /\ UNCHANGED outside

\* if current_metric < best_metric: update best_metric and _best_epoch and
\* call save_checkpoint("best", best_metric).
UpdateBest ==
    /\ pc = "compare"
    /\ IF IsImprovement(current_metric, best_metric)
       THEN /\ best_metric' = current_metric
            /\ best_epoch' = epoch
            /\ saving' = [name |-> "best", best_metric |-> current_metric,
                          ret |-> "save_latest"]
            /\ pc' = "save_open"
       ELSE /\ pc' = "save_latest"
            /\ UNCHANGED <<best_metric, best_epoch, saving>>
    /\ last' = Quiet
    /\ UNCHANGED <<config, iteration, epoch, self_best_metric, limits, states,
                   current_metric, epochs_left, batch, files, calls, restarts,
                   run, saved>>
    /\ UNCHANGED outside

\* self.save_checkpoint("latest", best_metric)
SaveLatest ==
    /\ pc = "save_latest"
    /\ saving' = [name |-> "latest", best_metric |-> best_metric,
                  ret |-> "early_stopping"]
    /\ pc' = "save_open"
    /\ last' = Quiet
    /\ UNCHANGED <<config, counters, limits, states, best_metric, current_metric,
                   epochs_left, batch, files, calls, restarts, run, saved>>
    /\ UNCHANGED outside

\* torch.save(save_dict, save_path), first half: the file at save_path is
\* opened for writing in place, which discards its previous content.
SaveOpen ==
    /\ pc = "save_open"
    /\ files' = [files EXCEPT ![saving.name] = Partial]
    /\ saved' = [saved EXCEPT ![saving.name] = NoSnapshot]
    /\ pc' = "save_write"
    /\ last' = Quiet
    /\ UNCHANGED <<config, counters, limits, states, locals, calls, restarts, run>>
    /\ UNCHANGED outside

\* torch.save(save_dict, save_path), second half: the record is complete.
SaveWrite ==
    /\ pc = "save_write"
    /\ files' = [files EXCEPT ![saving.name] = Complete(SaveDict(saving.best_metric))]
    /\ saved' = [saved EXCEPT ![saving.name] =
                    [Trainer EXCEPT !.best_metric = saving.best_metric]
                    @@ [init |-> init_data]]
    /\ pc' = saving.ret
    /\ run' = IF saving.ret = "save_latest"
              THEN [run EXCEPT !.best_writes = @ + 1, !.prev_best = run.last_best,
                               !.last_best = saving.best_metric]
              ELSE IF saving.ret = "early_stopping"
              THEN [run EXCEPT !.latest_writes = @ + 1]
              ELSE run
    /\ last' = [op |-> "save", slot |-> saving.name, result |-> "ok",
                before |-> NoSnapshot]
    /\ saving' = NoSnapshot
    /\ UNCHANGED <<config, counters, limits, states, best_metric, current_metric,
                   epochs_left, batch, calls, restarts>>
    /\ UNCHANGED outside

\* The early-stopping check, then self._epoch += 1 and the next round of
\* the loop over range(train_epochs).
EarlyStopping ==
    /\ pc = "early_stopping"
    /\ IF EarlyStoppingFires(epoch - best_epoch, early_stopping)
       THEN /\ pc' = "done"
            /\ run' = [run EXCEPT !.stopped_early = TRUE]
            /\ UNCHANGED <<epoch, epochs_left>>
       ELSE /\ epoch' = epoch + 1
            /\ epochs_left' = epochs_left - 1
            /\ pc' = IF epochs_left' = 0 THEN "done" ELSE "train"
            /\ run' = [run EXCEPT !.cycles = IF epochs_left' = 0 THEN @ ELSE @ + 1,
                                  !.sched0 = scheduler_state]
    /\ last' = Quiet
    /\ UNCHANGED <<config, iteration, best_epoch, self_best_metric, limits,
                   states, best_metric, current_metric, batch, saving, files,
                   calls, restarts, saved>>
    /\ UNCHANGED outside

\* A direct call of save_checkpoint(name, best_metric) on an initialized
\* trainer, outside fit.
SaveCheckpoint(name, bm) ==
    /\ Callable
    /\ init_data # NoSnapshot
    /\ calls < MaxCalls
    /\ calls' = calls + 1
    /\ saving' = [name |-> name, best_metric |-> bm, ret |-> "idle"]
    /\ pc' = "save_open"
    /\ run' = NoRun
    /\ last' = Quiet
    /\ UNCHANGED <<config, counters, limits, states, best_metric, current_metric,
                   epochs_left, batch, files, restarts, saved>>
    /\ UNCHANGED outside

\* A direct call of load_checkpoint(name), outside fit.
LoadCheckpointCall(name) ==
    /\ Callable
    /\ calls < MaxCalls
    /\ calls' = calls + 1
    /\ LET r == LoadCheckpoint(name, Trainer, mixed_precision, lr_scheduler, unset)
       IN  /\ Restore(r)
           /\ last' = [op |-> "load", slot |-> name, result |-> r.result,
                       before |-> Trainer]
    /\ pc' = "idle"
    /\ run' = NoRun
    /\ UNCHANGED <<config, limits, locals, files, restarts, saved>>
    /\ UNCHANGED outside

\* The process ends (normally or killed, at any point); the checkpoint
\* folder keeps whatever the files hold at that moment.
Kill ==
    /\ pc # "dead"
    /\ restarts < MaxRestarts
    /\ restarts' = restarts + 1
    /\ pc' = "dead"
    /\ len_train_loader' = 1 /\ early_stopping' = None
    /\ mixed_precision' = FALSE /\ lr_scheduler' = FALSE
    /\ unset' = "none"
    /\ iteration' = 0 /\ epoch' = 0 /\ best_epoch' = 0
    /\ self_best_metric' = None
    /\ max_iteration' = None /\ max_epoch' = None /\ init_data' = NoSnapshot
    /\ model_state' = 0 /\ optimizer_state' = 0
    /\ scaler_state' = None /\ scheduler_state' = None
    /\ best_metric' = Inf /\ current_metric' = Inf
    /\ epochs_left' = 0 /\ batch' = 0
    /\ saving' = NoSnapshot
    /\ run' = NoRun
    /\ last' = Quiet
    /\ UNCHANGED <<files, calls, saved>>
    /\ UNCHANGED outside

\* __init__ in a new process, with component missing left None (or "none"
\* left out): a loader that is None raises ValueError and no trainer exists;
\* otherwise counters at 0, and a scaler iff mixed precision.
Construct(n, es, mp, sched, missing) ==
    /\ pc = "dead"
    /\ IF missing \in Loaders
       THEN /\ last' = [op |-> "construct", slot |-> "none",
                        result |-> "ValueError", before |-> NoSnapshot]
            /\ UNCHANGED <<pc, config, scaler_state, scheduler_state>>
       ELSE /\ pc' = "idle"
            /\ len_train_loader' = n /\ early_stopping' = es
            /\ mixed_precision' = mp /\ lr_scheduler' = sched
            /\ unset' = missing
            /\ scaler_state' = (IF mp THEN 0 ELSE None)
            /\ scheduler_state' = (IF sched THEN 0 ELSE None)
            /\ last' = Quiet
    /\ UNCHANGED <<counters, limits, model_state, optimizer_state, locals,
                   files, calls, restarts, run, saved>>
    /\ UNCHANGED outside

\* from_checkpoint(checkpoint_folder, name), in a new process or in place of
\* the trainer at hand: reads the file, rebuilds the components from its
\* manifest, constructs the trainer and runs _initialize(0, save_dict). When
\* it raises, no trainer is constructed and the one at hand stays.
FromCheckpoint(name) ==
    /\ pc = "dead" \/ Callable
    /\ calls < MaxCalls
    /\ calls' = calls + 1
    /\ IF files[name].kind # "complete"
       THEN /\ last' = [op |-> "from_checkpoint", slot |-> name,
                        result |-> IF files[name].kind = "absent"
                                   THEN "ValueError" ELSE "LoadError",
                        before |-> NoSnapshot]
            /\ UNCHANGED <<pc, config, counters, limits, states, locals, run>>
       ELSE LET d  == files[name].data
                kw == GetTrainerKwargs(d.init)
                t0 == [Trainer EXCEPT
                         !.scaler_state = IF kw.mixed_precision THEN 0 ELSE None,
                         !.scheduler_state = IF kw.lr_scheduler THEN 0 ELSE None]
                r  == ApplySaveDict(d, t0, kw.mixed_precision, kw.lr_scheduler,
                                    "none")
            IN  /\ r.result = "ok"
                /\ len_train_loader' = kw.len_train_loader
                /\ early_stopping' = kw.early_stopping
                /\ mixed_precision' = kw.mixed_precision
                /\ lr_scheduler' = kw.lr_scheduler
                /\ unset' = "none"
                /\ Restore(r)
                /\ max_iteration' = MaxIteration(r.iteration, 0)
                /\ max_epoch' = r.epoch
                /\ init_data' = BuildInit(kw.len_train_loader, kw.early_stopping,
                                          kw.mixed_precision, kw.lr_scheduler)
                /\ pc' = "idle"
                /\ best_metric' = Inf /\ current_metric' = Inf
                /\ epochs_left' = 0 /\ batch' = 0
                /\ saving' = NoSnapshot
                /\ run' = NoRun
                /\ last' = [op |-> "from_checkpoint", slot |-> name,
                            result |-> "ok", before |-> NoSnapshot]
    /\ UNCHANGED <<files, restarts, saved>>
    /\ UNCHANGED outside

Checkpoints == Slots \cup {"none"}

Next ==
    \/ \E iterations \in 0 .. MaxIterations, ckpt \in Checkpoints : Fit(iterations, ckpt)
    \/ TrainEpochImpl
    \/ ValidateImpl
    \/ LrSchedulerStep
    \/ UpdateBest
    \/ SaveLatest
    \/ SaveOpen
    \/ SaveWrite
    \/ EarlyStopping
    \/ \E name \in Slots : LoadCheckpointCall(name)
    \/ \E name \in Slots : FromCheckpoint(name)

\* One trainer process that calls fit, load_checkpoint and from_checkpoint.
Spec == Init /\ [][Next]_vars

NextRestart ==
    \/ \E iterations \in 0 .. MaxIterations, ckpt \in Checkpoints : Fit(iterations, ckpt)
    \/ TrainEpochImpl
    \/ ValidateImpl
    \/ LrSchedulerStep
    \/ UpdateBest
    \/ SaveLatest
    \/ SaveOpen
    \/ SaveWrite
    \/ EarlyStopping
    \/ \E name \in Slots : LoadCheckpointCall(name)
    \/ \E name \in Slots : FromCheckpoint(name)
    \/ \E name \in Slots, bm \in Metrics \cup {Inf} : SaveCheckpoint(name, bm)
    \/ Kill
    \/ \E n \in 1 .. MaxBatches, es \in Patiences, mp \in BOOLEAN, sched \in BOOLEAN,
          missing \in {"none"} \cup Components :
          Construct(n, es, mp, sched, missing)

\* The same, with direct calls of save_checkpoint, and with processes that
\* end at any point and are followed by a newly constructed trainer.
SpecRestart == Init /\ [][NextRestart]_vars

\* ----------------------------------------------------------- Deserializer
NoneValue == "None"            \* Python's None where a string is expected

\* f"{name}_class" and f"{name}_kwargs"
ClassKey(name) == name \o "_class"
KwargsKey(name) == name \o "_kwargs"

\* name.endswith("_loader")
EndsWithLoader(name) == name \in {"train_loader", "val_loader"}

\* f"{name.replace('_loader', '')}_dataset"
DatasetKey(name) ==
    CASE name = "train_loader" -> "train_dataset"
      [] name = "val_loader" -> "val_dataset"
      [] OTHER -> name \o "_dataset"

\* init_data.get(key, default)
Get(init, key, default) == IF key \in DOMAIN init THEN init[key] ELSE default

\* A load_generic for which no request is optional.
LoadGenericAlwaysRequired(init, name, dynamic_args, optional, only_class, dynamic_kwargs) ==
    IF name \in DOMAIN init THEN [kind |-> "value", value |-> init[name]]
    ELSE LET this_cls == Get(init, ClassKey(name), NoneValue)
             kwargs == Get(init, KwargsKey(name), Empty)
         IN  IF this_cls = NoneValue THEN [kind |-> "RuntimeError"]
             ELSE IF only_class THEN [kind |-> "class", class |-> this_cls]
             ELSE IF DOMAIN kwargs \cap DOMAIN dynamic_kwargs # {}
             THEN [kind |-> "TypeError"]
             ELSE [kind |-> "instance", class |-> this_cls,
                   args |-> dynamic_args, kwargs |-> kwargs @@ dynamic_kwargs]

\* Deserializer.load_generic: the literal stored under name; else the class
\* stored under f"{name}_class", None or RuntimeError without one, the class
\* itself when only_class, and otherwise the call
\* this_cls(*dynamic_args, **stored kwargs, **dynamic_kwargs), which raises
\* TypeError when a keyword is given twice.
LoadGeneric(init, name, dynamic_args, optional, only_class, dynamic_kwargs) ==
    IF name \in DOMAIN init THEN [kind |-> "value", value |-> init[name]]
    ELSE LET this_cls == Get(init, ClassKey(name), NoneValue)
             kwargs == Get(init, KwargsKey(name), Empty)
         IN  IF this_cls = NoneValue
             THEN IF optional THEN [kind |-> "None"] ELSE [kind |-> "RuntimeError"]
             ELSE IF only_class THEN [kind |-> "class", class |-> this_cls]
             ELSE IF DOMAIN kwargs \cap DOMAIN dynamic_kwargs # {}
             THEN [kind |-> "TypeError"]
             ELSE [kind |-> "instance", class |-> this_cls,
                   args |-> dynamic_args, kwargs |-> kwargs @@ dynamic_kwargs]

\* Deserializer.load_loader: a DataLoader over the stored dataset with the
\* stored keyword arguments, and its shuffle attribute.
LoadLoader(init, name) ==
    IF DatasetKey(name) \notin DOMAIN init \/ KwargsKey(name) \notin DOMAIN init
    THEN [kind |-> "KeyError"]
    ELSE [kind |-> "loader", dataset |-> init[DatasetKey(name)],
          kwargs |-> init[KwargsKey(name)],
          shuffle |-> Get(init[KwargsKey(name)], "shuffle", FALSE)]

\* Deserializer.__call__
Call(ld, name, dynamic_args, optional, only_class, dynamic_kwargs) ==
    IF EndsWithLoader(name) THEN LoadLoader(ld.init_data, name)
    ELSE IF name = "device" THEN [kind |-> "value", value |-> ld.device]
    ELSE LoadGeneric(ld.init_data, name, dynamic_args, optional, only_class,
                     dynamic_kwargs)

\* The manifests a Deserializer is given: for each component the entries
\* that _build_init writes, all, some or none of them, or a literal.
ModelEntries ==
    {Empty, "model" :> "net", "model_class" :> "nets.UNet",
     ("model_class" :> "nets.UNet") @@ ("model_kwargs" :> [lr |-> 1]),
     ("model" :> "net") @@ ("model_class" :> "nets.UNet")}
SchedulerEntries ==
    {Empty, "lr_scheduler_class" :> "optim.StepLR",
     ("lr_scheduler_class" :> "optim.StepLR")
        @@ ("lr_scheduler_kwargs" :> [gamma |-> 1])}
LoggerEntries ==
    {c @@ k : c \in {Empty, "logger_class" :> NoneValue,
                     "logger_class" :> "loggers.Tensorboard"},
              k \in {Empty, "logger_kwargs" :> [dir |-> 1]}}
LoaderEntries ==
    {Empty, "train_dataset" :> "ds",
     ("train_dataset" :> "ds") @@ ("train_loader_kwargs" :> [shuffle |-> TRUE])}
DeviceEntries == {Empty, "device" :> "cpu"}
Manifests ==
    {m @@ s @@ l @@ t @@ d : m \in ModelEntries, s \in SchedulerEntries,
                            l \in LoggerEntries, t \in LoaderEntries,
                            d \in DeviceEntries}
Requested == {"model", "lr_scheduler", "logger", "logger_kwargs",
              "train_loader", "device"}

Request(name, dynamic_args, optional, only_class, dynamic_kwargs, result) ==
    [name |-> name, dynamic_args |-> dynamic_args, optional |-> optional,
     only_class |-> only_class, dynamic_kwargs |-> dynamic_kwargs,
     result |-> result]

\* Deserializer.__init__(init_data, save_path, device): the device given, or
\* the one the manifest records.
DeserializerInit(init, device) ==
    /\ load = NoSnapshot
    /\ IF device = NoneValue /\ "device" \notin DOMAIN init
       THEN /\ loaded' = Request("__init__", <<>>, FALSE, FALSE, Empty,
                                 [kind |-> "KeyError"])
            /\ UNCHANGED load
       ELSE /\ load' = [init_data |-> init,
                        device |-> IF device = NoneValue THEN init["device"]
                                   ELSE device]
            /\ loaded' = NoSnapshot
    /\ UNCHANGED <<trainer, evaluation, predictions, viewer>>

\* load(name, *dynamic_args, optional, only_class, dynamic_kwargs): one call
\* of a Deserializer, which keeps no state between calls.
DeserializerCall(name, dynamic_args, optional, only_class, dynamic_kwargs) ==
    /\ load # NoSnapshot
    /\ loaded = NoSnapshot
    /\ loaded' = Request(name, dynamic_args, optional, only_class, dynamic_kwargs,
                         Call(load, name, dynamic_args, optional, only_class,
                              dynamic_kwargs))
    /\ UNCHANGED <<load, trainer, evaluation, predictions, viewer>>

\* One trainer, which no operation of the specification touches.
InitAlone ==
    /\ Init
    /\ len_train_loader = 1 /\ early_stopping = None
    /\ ~mixed_precision /\ ~lr_scheduler /\ unset = "none"

NextDeserializer ==
    \/ \E init \in Manifests, device \in {NoneValue, "cuda"} :
          DeserializerInit(init, device)
    \/ \E name \in Requested, dynamic_args \in {<<>>, <<"optimizer">>},
          optional \in BOOLEAN, only_class \in BOOLEAN,
          dynamic_kwargs \in {Empty, [lr |-> 2]} :
          DeserializerCall(name, dynamic_args, optional, only_class, dynamic_kwargs)

\* A Deserializer over any of the manifests, asked for any of the names.
SpecDeserializer == InitAlone /\ [][NextDeserializer]_vars

\* ------------------------------------------------------------- evaluation
\* An array is its content val and its number of dimensions ndim.

\* The keys of the enhancers and of the ilastik_projects dict, in order. The
\* caller chooses them: forests named apart from the enhancers, forests named
\* like the enhancers, or forests named by their number.
Namings == {"apart", "alike", "numbers"}
EnhancerName(n) == "enh" \o ToString(n)
ForestName(a, n) ==
    IF a.names = "alike" THEN EnhancerName(n)
    ELSE IF a.names = "numbers" THEN ToString(n)
    ELSE "rf" \o ToString(n)

\* f"{z:04}"
Pad4(n) ==
    IF n < 10 THEN "000" \o ToString(n)
    ELSE IF n < 100 THEN "00" \o ToString(n)
    ELSE IF n < 1000 THEN "0" \o ToString(n)
    ELSE ToString(n)

\* A key is the path the store sees: the segments between the "/".
\* rf_name if z is None else f"{rf_name}/{z:04}"
RfKey(rf_name, zz) ==
    IF zz = None THEN <<rf_name>> ELSE <<rf_name, Pad4(zz)>>

\* f"{enh_name}/{rf_name}" if z is None else f"{enh_name}/{rf_name}/{z:04}"
EnhKey(enh_name, rf_name, zz) ==
    IF zz = None THEN <<enh_name, rf_name>>
    ELSE <<enh_name, rf_name, Pad4(zz)>>

\* Path p leads to path q or to a place above it.
IsPrefix(p, q) == Len(p) <= Len(q) /\ SubSeq(q, 1, Len(p)) = p

\* What can go wrong inside the with-block: the predictor raises, or the
\* write to the file does.
Faults == {"none", "predict", "write"}

\* Leaving a block that keeps the file open when an error passes through.
ExitLeaksOnError(h, raised) == IF raised THEN h ELSE h - 1

\* Leaving the block of with io.open_file(save_path, "a") as f: the file is
\* closed, on a return and on an error alike.
Exit(h, raised) == h - 1

\* A lookup that never finds the name.
ContainsNever(f, name) == FALSE

\* name in f: a dataset, or a group that holds datasets
Contains(f, name) == \E k \in DOMAIN f : IsPrefix(name, k)

\* The store cannot create the dataset: a dataset sits on the path to it.
Conflicts(f, name) == \E k \in DOMAIN f : k # name /\ IsPrefix(k, name)

\* A write that leaves nothing but the new dataset in the file.
CreateDatasetTruncates(f, name, data) == (name :> data)

\* f.create_dataset(name, data=pred, compression="gzip"), reached only when
\* name is not in f
CreateDataset(f, name, data) == f @@ (name :> data)

\* data and labels, or data[z] and labels[z]: slice z of the data differs
\* from every other slice, and so does slice z of the labels.
Data(a, zz) ==
    IF zz = None THEN [val |-> 0, ndim |-> a.ndim]
    ELSE [val |-> 2 * zz + 1, ndim |-> a.ndim - 1]
Labels(a, zz) ==
    IF zz = None THEN [val |-> 0, ndim |-> a.ndim]
    ELSE [val |-> zz, ndim |-> a.ndim - 1]

\* "yx" if ndim == 2 else "zyx", and "yx" for a slice
Axes(a, zz) ==
    IF a.ndim = 2 \/ zz # None THEN <<"y", "x">> ELSE <<"z", "y", "x">>

\* rf(input_): forest n's prediction, with a.extra axes (channel, batch)
\* before the spatial ones.
Rf(n, input_, extra) == [val |-> input_.val + n, ndim |-> input_.ndim + extra]

\* pred[(None,) * (len(axes) + 2 - pred.ndim)]
InsertAxes(p, axes) ==
    [p EXCEPT !.ndim = IF @ < Len(axes) + 2 THEN Len(axes) + 2 ELSE @]

\* enh(rf_pred), or prediction_function(enh, rf_pred): enhancer n's output
Enh(n, p) == [val |-> p.val + 10 * n, ndim |-> p.ndim]

\* pred[0]
Index0Whole(p) == p

Index0(p) == [p EXCEPT !.ndim = @ - 1]

\* metric(pred, y): the mean absolute difference
Metric(p, y) == IF p.val >= y.val THEN p.val - y.val ELSE y.val - p.val

\* np.zeros((len(models) + 1, len(ilps)))
Zeros(rows, cols) == [r \in 1 .. rows |-> [c \in 1 .. cols |-> 0]]

\* list(models.keys()) + ["rf-score"]
RowLabel(a, r) == IF r <= a.enhancers THEN EnhancerName(r) ELSE "rf-score"

\* pd.DataFrame(scores, columns=list(ilps.keys())), then the "enhancer"
\* column inserted at position 0: a row is its label followed by its scores.
DataFrame(a, sc) ==
    [columns |-> <<"enhancer">> \o [c \in 1 .. a.forests |-> ForestName(a, c)],
     index |-> [r \in 1 .. a.enhancers + 1 |-> r - 1],
     index_name |-> "none",
     values |-> [r \in 1 .. a.enhancers + 1 |-> <<RowLabel(a, r)>> \o sc[r]]]

\* pd.concat(scores)
RECURSIVE Concat(_)
Concat(tables) ==
    IF Len(tables) = 1 THEN tables[1]
    ELSE LET rest == Concat(Tail(tables))
         IN  [tables[1] EXCEPT !.index = @ \o rest.index,
                              !.values = @ \o rest.values]

\* The sum and the number of the cells of column c in the rows labelled l.
RECURSIVE SumOf(_, _, _)
SumOf(rows, l, c) ==
    IF rows = <<>> THEN [sum |-> 0, n |-> 0]
    ELSE LET rest == SumOf(Tail(rows), l, c)
         IN  IF rows[1][1] = l
             THEN [sum |-> rest.sum + rows[1][c], n |-> rest.n + 1]
             ELSE rest

\* Place of a label in the sorted order of the labels: the enhancer names in
\* their order, then "rf-score".
LabelRank(l) ==
    IF l = "rf-score" THEN MaxEnhancers + 2
    ELSE CHOOSE n \in 1 .. MaxEnhancers + 1 : EnhancerName(n) = l

\* The labels of the rows, sorted.
SortedLabels(rows) ==
    LET labels == {rows[r][1] : r \in 1 .. Len(rows)}
        below(l) == Cardinality({m \in labels : LabelRank(m) < LabelRank(l)})
    IN  [k \in 1 .. Cardinality(labels) |->
            CHOOSE l \in labels : below(l) = k - 1]

\* A mean that divides by one less than the number of cells.
GroupByMeanOffByOne(t) ==
    LET labels == SortedLabels(t.values)
    IN  [columns |-> Tail(t.columns),
         index |-> labels,
         index_name |-> "enhancer",
         values |-> [k \in 1 .. Len(labels) |->
                       [c \in 1 .. Len(t.columns) - 1 |->
                          [SumOf(t.values, labels[k], c + 1) EXCEPT !.n = @ - 1]]]]

\* .groupby("enhancer").mean(): one row per label, in sorted order, the
\* labels as the index and no longer a column, each cell the mean (sum over
\* n) of the cells of its column in the rows of that label.
GroupByMean(t) ==
    LET labels == SortedLabels(t.values)
    IN  [columns |-> Tail(t.columns),
         index |-> labels,
         index_name |-> "enhancer",
         values |-> [k \in 1 .. Len(labels) |->
                       [c \in 1 .. Len(t.columns) - 1 |->
                          SumOf(t.values, labels[k], c + 1)]]]

\* The arguments of evaluate_enhancers: data.ndim, whether data.shape ==
\* labels.shape, is2d, data.shape[0] where the slices are walked, the number
\* of enhancers and of ilastik projects, how they are named, and the number
\* of axes the forests put in front of the spatial ones.
Inputs ==
    {a \in [ndim : 1 .. 4, same_shape : BOOLEAN, is2d : BOOLEAN,
            slices : 0 .. MaxSlices, enhancers : 0 .. MaxEnhancers,
            forests : 0 .. MaxForests, names : Namings, extra : 0 .. 3] :
        /\ (a.ndim = 3 /\ a.is2d) \/ a.slices = 1
        /\ a.names # "apart" => a.forests > 0
        /\ a.names = "alike" => a.enhancers > 0}

\* A dispatch that walks the slices of whatever is2d comes with.
ModeSlicesWhenever(a) ==
    IF ~a.same_shape THEN "AssertionError"
    ELSE IF a.ndim = 2 \/ (a.ndim = 3 /\ ~a.is2d) THEN "chunk"
    ELSE IF a.is2d THEN "slices"
    ELSE "ValueError"

\* assert data.shape == labels.shape, and the dispatch on ndim and is2d: one
\* chunk, the slices of a volume, or an error.
Mode(a) ==
    IF ~a.same_shape THEN "AssertionError"
    ELSE IF a.ndim = 2 \/ (a.ndim = 3 /\ ~a.is2d) THEN "chunk"
    ELSE IF a.ndim = 3 /\ a.is2d THEN "slices"
    ELSE "ValueError"

\* The data cannot be evaluated: neither 2D nor 3D, or not of the shape of
\* the labels.
Invalid(a) == a.ndim \notin {2, 3} \/ ~a.same_shape

\* Leaving evaluate_enhancers, or raising out of it: its locals are gone.
Leave(at, result) ==
    /\ ev_pc' = at
    /\ outcome' = result
    /\ chunk_z' = None /\ forest_i' = 0 /\ enhancer_j' = 0
    /\ rf_pred' = NoSnapshot /\ pred' = NoSnapshot
    /\ scores' = NoSnapshot /\ scores_z' = <<>>

Raised(err) == [error |-> err]

\* process_chunk(x, y, axes, z) up to the head of the forest loop
ProcessChunk(zz) ==
    /\ chunk_z' = zz
    /\ scores' = Zeros(args'.enhancers + 1, args'.forests)
    /\ forest_i' = 1 /\ enhancer_j' = 0
    /\ rf_pred' = NoSnapshot /\ pred' = NoSnapshot
    /\ ev_pc' = IF args'.forests = 0 THEN "table" ELSE "rf"

\* evaluate_enhancers(data, labels, enhancers, ilastik_projects, metric,
\* save_path=path) up to the first forest prediction
EvaluateEnhancers(a, path) ==
    /\ ev_pc \in {"idle", "returned", "raised"}
    /\ evals < MaxEvals
    /\ args \in {NoSnapshot, a}
    /\ evals' = evals + 1
    /\ args' = a
    /\ save_path' = path
    /\ seen' = [seen EXCEPT !.lookup = NoSnapshot, !.read = FALSE,
                            !.handed = {}, !.scored = {}, !.passes = 0,
                            !.calls = 0, !.opens = 0, !.requested = {},
                            !.before = store, !.uncached = Empty,
                            !.shapes = {},
                            !.prior = IF /\ ev_pc = "returned"
                                         /\ save_path = "cache"
                                         /\ seen.before = Empty
                                      THEN [shapes |-> seen.shapes,
                                            outcome |-> outcome]
                                      ELSE NoSnapshot]
    /\ IF Mode(a) = "chunk"
       THEN ProcessChunk(None) /\ outcome' = NoSnapshot /\ scores_z' = <<>>
       ELSE IF Mode(a) = "slices"
       THEN IF a.slices = 0
            THEN Leave("aggregate", NoSnapshot)
            ELSE ProcessChunk(0) /\ outcome' = NoSnapshot /\ scores_z' = <<>>
       ELSE Leave("raised", Raised(Mode(a)))
    /\ predictions' = NoSnapshot
    /\ UNCHANGED <<store, handles, trainer, deserializer, viewer>>

\* What the observer records of a cache request that returned array for
\* name, after n invocations of the predictor.
Looked(name, array, n) ==
    [seen EXCEPT !.lookup = [name |-> name, array |-> array],
                 !.first = IF name \in DOMAIN @ THEN @ ELSE @ @@ (name :> array),
                 !.invoked = IF name \in DOMAIN @
                             THEN [@ EXCEPT ![name] = @ + n]
                             ELSE @ @@ (name :> n),
                 !.calls = @ + n]

\* What the observer records of an invocation of forest forest_i, or of
\* enhancer j on its prediction, made without a cache.
Uncached(history, j) ==
    LET k == [enhancer |-> j, forest |-> forest_i, z |-> chunk_z]
    IN  [history EXCEPT !.calls = @ + 1,
                        !.uncached = IF k \in DOMAIN @
                                     THEN [@ EXCEPT ![k] = @ + 1]
                                     ELSE @ @@ (k :> 1)]

\* The enhancer loop begins, or with no enhancer the baseline is scored.
EnterEnhancers ==
    /\ IF args.enhancers = 0
       THEN ev_pc' = "baseline" /\ enhancer_j' = 0
       ELSE ev_pc' = "enh" /\ enhancer_j' = 1
    /\ UNCHANGED <<chunk_z, forest_i, pred, scores, scores_z, outcome>>

\* require_rf_prediction up to the return without a cache, or up to the
\* opened cache file. The forest may raise.
RequireRfPrediction(raises) ==
    /\ ev_pc = "rf"
    /\ IF save_path = "none"
       THEN /\ seen' = Uncached(seen, 0)
            /\ UNCHANGED handles
            /\ IF raises
               THEN Leave("raised", Raised("PredictionError"))
               ELSE /\ rf_pred' = Rf(forest_i, Data(args, chunk_z), args.extra)
                    /\ EnterEnhancers
       ELSE /\ ~raises
            /\ handles' = handles + 1
            /\ ev_pc' = "rf_file"
            /\ seen' = [seen EXCEPT
                          !.opens = @ + 1,
                          !.requested = @ \cup
                              {[key |-> RfKey(ForestName(args, forest_i), chunk_z),
                                kind |-> "forest", enhancer |-> 0,
                                forest |-> forest_i, z |-> chunk_z]}]
            /\ UNCHANGED <<position, rf_pred, pred, scores, scores_z, outcome>>
    /\ UNCHANGED <<args, save_path, store, evals, trainer, deserializer,
                   predictions, viewer>>

\* The body of the with-block of require_rf_prediction, and leaving it.
\* f[name][:] of a group raises.
RfFile(fault) ==
    /\ ev_pc = "rf_file"
    /\ LET name == RfKey(ForestName(args, forest_i), chunk_z)
           axes == Axes(args, chunk_z)
           computed == InsertAxes(Rf(forest_i, Data(args, chunk_z), args.extra),
                                  axes)
       IN  IF Contains(store, name) /\ name \notin DOMAIN store
           THEN /\ fault = "none"
                /\ Leave("raised", Raised("TypeError"))
                /\ handles' = Exit(handles, TRUE)
                /\ UNCHANGED <<store, seen>>
           ELSE IF Contains(store, name)
           THEN /\ fault = "none"
                /\ rf_pred' = store[name]
                /\ seen' = [Looked(name, store[name], 0) EXCEPT !.read = TRUE]
                /\ EnterEnhancers
                /\ handles' = Exit(handles, FALSE)
                /\ UNCHANGED store
           ELSE IF fault = "predict"
           THEN /\ Leave("raised", Raised("PredictionError"))
                /\ seen' = [seen EXCEPT !.calls = @ + 1]
                /\ handles' = Exit(handles, TRUE)
                /\ UNCHANGED store
           ELSE IF computed.ndim # Len(axes) + 2
           THEN /\ fault = "none"
                /\ Leave("raised", Raised("AssertionError"))
                /\ seen' = [seen EXCEPT !.calls = @ + 1]
                /\ handles' = Exit(handles, TRUE)
                /\ UNCHANGED store
           ELSE IF fault = "write" \/ Conflicts(store, name)
           THEN /\ fault = (IF Conflicts(store, name) THEN "none" ELSE "write")
                /\ Leave("raised", Raised(IF Conflicts(store, name)
                                          THEN "ValueError" ELSE "WriteError"))
                /\ seen' = [seen EXCEPT !.calls = @ + 1]
                /\ handles' = Exit(handles, TRUE)
                /\ UNCHANGED store
           ELSE /\ store' = CreateDataset(store, name, computed)
                /\ rf_pred' = computed
                /\ seen' = [Looked(name, computed, 1) EXCEPT !.read = FALSE]
                /\ EnterEnhancers
                /\ handles' = Exit(handles, FALSE)
    /\ UNCHANGED <<args, save_path, evals, trainer, deserializer,
                   predictions, viewer>>

\* What the observer records of an array passed to enhancer row (to the
\* metric for that row of the table when to is "metric").
Passes(history, to, row, array) ==
    [history EXCEPT !.shapes = @ \cup {[to |-> to, row |-> row,
                                        forest |-> forest_i, z |-> chunk_z,
                                        ndim |-> array.ndim]}]

\* The array is handed to the enhancer or to the prediction_function.
Handed(history, array) ==
    [Passes(history, "enhancer", enhancer_j, array) EXCEPT
        !.handed = @ \cup {[ndim |-> array.ndim,
                            axes |-> Len(Axes(args, chunk_z)),
                            stored |-> save_path # "none",
                            read |-> history.read]}]

\* require_enh_prediction up to the return without a cache, or up to the
\* opened cache file. The enhancer may raise.
RequireEnhPrediction(raises) ==
    /\ ev_pc = "enh"
    /\ IF save_path = "none"
       THEN /\ seen' = Uncached(Handed(seen, rf_pred), enhancer_j)
            /\ UNCHANGED handles
            /\ IF raises
               THEN Leave("raised", Raised("PredictionError"))
               ELSE /\ pred' = Index0(Enh(enhancer_j, rf_pred))
                    /\ ev_pc' = "score"
                    /\ UNCHANGED <<position, rf_pred, scores, scores_z, outcome>>
       ELSE /\ ~raises
            /\ handles' = handles + 1
            /\ ev_pc' = "enh_file"
            /\ seen' = [seen EXCEPT
                          !.opens = @ + 1,
                          !.requested = @ \cup
                              {[key |-> EnhKey(EnhancerName(enhancer_j),
                                               ForestName(args, forest_i),
                                               chunk_z),
                                kind |-> "enhancer", enhancer |-> enhancer_j,
                                forest |-> forest_i, z |-> chunk_z]}]
            /\ UNCHANGED <<position, rf_pred, pred, scores, scores_z, outcome>>
    /\ UNCHANGED <<args, save_path, store, evals, trainer, deserializer,
                   predictions, viewer>>

\* The body of the with-block of require_enh_prediction, and leaving it.
EnhFile(fault) ==
    /\ ev_pc = "enh_file"
    /\ LET name == EnhKey(EnhancerName(enhancer_j), ForestName(args, forest_i),
                          chunk_z)
           axes == Axes(args, chunk_z)
           computed == Index0(Enh(enhancer_j, rf_pred))
       IN  IF Contains(store, name) /\ name \notin DOMAIN store
           THEN /\ fault = "none"
                /\ Leave("raised", Raised("TypeError"))
                /\ handles' = Exit(handles, TRUE)
                /\ UNCHANGED <<store, seen>>
           ELSE IF Contains(store, name)
           THEN /\ fault = "none"
                /\ pred' = store[name]
                /\ seen' = Looked(name, store[name], 0)
                /\ ev_pc' = "score"
                /\ handles' = Exit(handles, FALSE)
                /\ UNCHANGED <<store, position, rf_pred, scores, scores_z,
                               outcome>>
           ELSE IF rf_pred.ndim # Len(axes) + 2
           THEN /\ fault = "none"
                /\ Leave("raised", Raised("ValueError"))
                /\ handles' = Exit(handles, TRUE)
                /\ UNCHANGED <<store, seen>>
           ELSE IF fault = "predict"
           THEN /\ Leave("raised", Raised("PredictionError"))
                /\ seen' = [Handed(seen, rf_pred) EXCEPT !.calls = @ + 1]
                /\ handles' = Exit(handles, TRUE)
                /\ UNCHANGED store
           ELSE IF fault = "write" \/ Conflicts(store, name)
           THEN /\ fault = (IF Conflicts(store, name) THEN "none" ELSE "write")
                /\ Leave("raised", Raised(IF Conflicts(store, name)
                                          THEN "ValueError" ELSE "WriteError"))
                /\ seen' = [Handed(seen, rf_pred) EXCEPT !.calls = @ + 1]
                /\ handles' = Exit(handles, TRUE)
                /\ UNCHANGED store
           ELSE /\ store' = CreateDataset(store, name, computed)
                /\ pred' = computed
                /\ seen' = Handed(Looked(name, computed, 1), rf_pred)
                /\ ev_pc' = "score"
                /\ handles' = Exit(handles, FALSE)
                /\ UNCHANGED <<position, rf_pred, scores, scores_z, outcome>>
    /\ UNCHANGED <<args, save_path, evals, trainer, deserializer,
                   predictions, viewer>>

\* score = metric(pred, y); scores[j, i] = score, and the next enhancer
Score ==
    /\ ev_pc = "score"
    /\ LET score == Metric(pred, Labels(args, chunk_z))
       IN  /\ scores' = [scores EXCEPT ![enhancer_j][forest_i] = score]
           /\ seen' = [Passes(seen, "metric", enhancer_j, pred) EXCEPT
                         !.calls = @ + 1,
                         !.scored = @ \cup {[z |-> chunk_z, row |-> enhancer_j,
                                             forest |-> forest_i,
                                             score |-> score]}]
    /\ IF enhancer_j < args.enhancers
       THEN enhancer_j' = enhancer_j + 1 /\ ev_pc' = "enh"
       ELSE enhancer_j' = enhancer_j /\ ev_pc' = "baseline"
    /\ UNCHANGED <<args, save_path, store, handles, chunk_z, forest_i, rf_pred,
                   pred, scores_z, outcome, evals, trainer, deserializer,
                   predictions, viewer>>

\* score = metric(rf_pred, y); scores[-1, i] = score, and the next forest
Baseline ==
    /\ ev_pc = "baseline"
    /\ LET score == Metric(rf_pred, Labels(args, chunk_z))
           last_row == args.enhancers + 1
       IN  /\ scores' = [scores EXCEPT ![last_row][forest_i] = score]
           /\ seen' = [Passes(seen, "metric", last_row, rf_pred) EXCEPT
                         !.calls = @ + 1,
                         !.scored = @ \cup {[z |-> chunk_z, row |-> last_row,
                                             forest |-> forest_i,
                                             score |-> score]}]
    /\ IF forest_i < args.forests
       THEN forest_i' = forest_i + 1 /\ ev_pc' = "rf"
       ELSE forest_i' = forest_i /\ ev_pc' = "table"
    /\ enhancer_j' = 0
    /\ UNCHANGED <<args, save_path, store, handles, chunk_z, rf_pred, pred,
                   scores_z, outcome, evals, trainer, deserializer,
                   predictions, viewer>>

\* The end of process_chunk: the table of the chunk, which is returned for a
\* single chunk and appended to the list of the slices otherwise; then the
\* next slice.
Table ==
    /\ ev_pc = "table"
    /\ seen' = [seen EXCEPT !.passes = @ + 1]
    /\ LET t == DataFrame(args, scores)
       IN  IF chunk_z = None
           THEN Leave("returned", t)
           ELSE IF chunk_z + 1 < args.slices
           THEN /\ scores_z' = Append(scores_z, t)
                /\ chunk_z' = chunk_z + 1
                /\ scores' = Zeros(args.enhancers + 1, args.forests)
                /\ forest_i' = 1 /\ enhancer_j' = 0
                /\ rf_pred' = NoSnapshot /\ pred' = NoSnapshot
                /\ ev_pc' = IF args.forests = 0 THEN "table" ELSE "rf"
                /\ UNCHANGED outcome
           ELSE /\ scores_z' = Append(scores_z, t)
                /\ ev_pc' = "aggregate"
                /\ chunk_z' = None /\ forest_i' = 0 /\ enhancer_j' = 0
                /\ rf_pred' = NoSnapshot /\ pred' = NoSnapshot
                /\ scores' = NoSnapshot
                /\ UNCHANGED outcome
    /\ UNCHANGED <<args, save_path, store, handles, evals, trainer,
                   deserializer, predictions, viewer>>

\* scores = pd.concat(scores).groupby("enhancer").mean(); pd.concat raises
\* on an empty list.
Aggregate ==
    /\ ev_pc = "aggregate"
    /\ IF scores_z = <<>>
       THEN Leave("raised", Raised("ValueError"))
       ELSE Leave("returned", GroupByMean(Concat(scores_z)))
    /\ UNCHANGED <<args, save_path, store, handles, evals, seen, trainer,
                   deserializer, predictions, viewer>>

\* int(name.split("/")[-1]) on the segments a key can end with: the number,
\* or None where int raises ValueError.
Numerals ==
    [segment \in {ToString(n) : n \in 0 .. MaxForests + MaxSlices}
                 \cup {Pad4(n) : n \in 0 .. MaxForests + MaxSlices} |->
        CHOOSE n \in 0 .. MaxForests + MaxSlices :
            segment \in {ToString(n), Pad4(n)}]

IntOf(segment) ==
    IF segment \in DOMAIN Numerals THEN Numerals[segment] ELSE None

\* A visit that files every dataset under its own name.
VisitWhole(found, name, node) == (name :> [array |-> node]) @@ found

\* visit(name, node) of a dataset: filed as slice z under the name without
\* its last segment when that segment is a number, under its own name
\* otherwise.
Visit(found, name, node) ==
    LET z == IntOf(name[Len(name)])
        data_name == SubSeq(name, 1, Len(name) - 1)
        slices == IF data_name \in DOMAIN found THEN found[data_name].slices
                  ELSE Empty
    IN  IF z = None THEN (name :> [array |-> node]) @@ found
        ELSE (data_name :> [slices |-> (z :> node) @@ slices]) @@ found

\* f.visititems(visit), the datasets met in the given order
RECURSIVE VisitItems(_, _, _)
VisitItems(found, f, order) ==
    IF order = <<>> THEN found
    ELSE VisitItems(Visit(found, order[1], f[order[1]]), f, Tail(order))

\* to_vol(pred): an array as it is, the slices stacked by increasing z
\* along a new leading axis
ToVol(found) ==
    IF "array" \in DOMAIN found THEN found.array
    ELSE LET zs == DOMAIN found.slices
             at(k) == CHOOSE z \in zs : Cardinality({y \in zs : y < z}) = k - 1
         IN  [stack |-> [k \in 1 .. Cardinality(zs) |-> found.slices[at(k)]],
              ndim |-> found.slices[at(1)].ndim + 1]

\* Two orders in which a store can enumerate what it holds: some order, and
\* the reverse of it.
RECURSIVE SomeOrder(_)
SomeOrder(S) ==
    IF S = {} THEN <<>>
    ELSE LET x == CHOOSE y \in S : TRUE IN <<x>> \o SomeOrder(S \ {x})

Reverse(q) == [k \in 1 .. Len(q) |-> q[Len(q) + 1 - k]]

Orders(S) == {SomeOrder(S), Reverse(SomeOrder(S))}

\* The orders in which the cache can be read back now: none while an
\* evaluation runs or while the cache holds nothing.
Enumerations ==
    IF ev_pc \in {"idle", "returned", "raised"} /\ store # Empty
    THEN Orders(DOMAIN store)
    ELSE {}

\* load_predictions(save_path) on a cache that holds predictions, while no
\* evaluation is running
LoadPredictions(order) ==
    /\ ev_pc \in {"idle", "returned", "raised"}
    /\ store # Empty
    /\ \E found \in {VisitItems(Empty, store, order)} :
          predictions' = [order |-> order,
                          result |-> [name \in DOMAIN found |->
                                         ToVol(found[name])]]
    /\ UNCHANGED <<trainer, deserializer, evaluation, viewer>>

\* The arguments a caller can pass now: any before the first call, the same
\* data, labels, enhancers and projects in the calls after it, and none
\* while a call runs.
Passed ==
    IF ev_pc \in {"idle", "returned", "raised"} /\ evals < MaxEvals
    THEN IF args = NoSnapshot THEN Inputs ELSE {args}
    ELSE {}

NextEvaluation ==
    \/ \E a \in Passed, path \in {"none", "cache"} : EvaluateEnhancers(a, path)
    \/ \E raises \in BOOLEAN : RequireRfPrediction(raises)
    \/ \E fault \in Faults : RfFile(fault)
    \/ \E raises \in BOOLEAN : RequireEnhPrediction(raises)
    \/ \E fault \in Faults : EnhFile(fault)
    \/ Score
    \/ Baseline
    \/ Table
    \/ Aggregate

SpecEvaluation == InitAlone /\ [][NextEvaluation]_vars

\* Evaluations that fill a cache, of data that can be evaluated and forests
\* that return batch and channel axes, and read-backs of the cache.
NextReadBack ==
    \/ \E a \in {b \in Passed : ~Invalid(b) /\ b.extra = 2} :
          EvaluateEnhancers(a, "cache")
    \/ \E raises \in BOOLEAN : RequireRfPrediction(raises)
    \/ \E fault \in Faults : RfFile(fault)
    \/ \E raises \in BOOLEAN : RequireEnhPrediction(raises)
    \/ \E fault \in Faults : EnhFile(fault)
    \/ Score
    \/ Baseline
    \/ Table
    \/ Aggregate
    \/ \E order \in Enumerations : LoadPredictions(order)

SpecReadBack == InitAlone /\ [][NextReadBack]_vars

\* ------------------------------------------------- visualize_pretrained_rfs
\* The forest files of the checkpoint are 1 .. L in sorted order; a path
\* stands for its file, and for its basename.

\* rf_paths[::(len(rf_paths) // n_forests)][:n_forests], for a step that
\* is not zero
RegularSample(L, n_forests) ==
    LET step == L \div n_forests
    IN  [k \in 1 .. Min(n_forests, (L + step - 1) \div step) |->
            1 + (k - 1) * step]

\* predict_rf(rf_path): the prediction of the forest pickled at rf_path on
\* the features, which no worker changes
PredictRf(rf_path) == [forest |-> rf_path]

Queued == [state |-> "queued", result |-> NoSnapshot, stamp |-> 0]

\* visualize_pretrained_rfs(checkpoint, raw, n_forests, sample_random,
\* n_threads=threads) up to the submission of the tasks; drawn are the paths
\* np.random.choice returns.
VisualizePretrainedRfs(L, n_forests, sample_random, drawn, threads) ==
    /\ vis_pc = "idle"
    /\ IF ~sample_random /\ L \div n_forests = 0
       THEN \* ValueError: slice step cannot be zero
            /\ vis_pc' = "raised"
            /\ UNCHANGED <<rf_paths, n_threads, futures>>
       ELSE LET sample == IF sample_random THEN drawn
                          ELSE RegularSample(L, n_forests)
            IN  /\ vis_pc' = "map"
                /\ rf_paths' = sample
                /\ n_threads' = threads
                /\ futures' = [i \in 1 .. Len(sample) |-> Queued]
    /\ UNCHANGED <<preds, images, trainer, deserializer, evaluation,
                   predictions>>

\* A free worker takes the task that has waited longest.
Start(i) ==
    /\ vis_pc = "map"
    /\ i \in DOMAIN futures
    /\ futures[i].state = "queued"
    /\ \A j \in 1 .. i - 1 : futures[j].state # "queued"
    /\ Cardinality({j \in DOMAIN futures : futures[j].state = "running"})
         < n_threads
    /\ futures' = [futures EXCEPT ![i].state = "running"]
    /\ UNCHANGED <<vis_pc, rf_paths, n_threads, preds, images, trainer,
                   deserializer, evaluation, predictions>>

\* The worker of task i returns from predict_rf.
Finish(i) ==
    /\ vis_pc = "map"
    /\ i \in DOMAIN futures
    /\ futures[i].state = "running"
    /\ futures' = [futures EXCEPT
                     ![i] = [state |-> "done",
                             result |-> PredictRf(rf_paths[i]),
                             stamp |-> 1 + Cardinality({j \in DOMAIN futures :
                                             futures[j].state = "done"})]]
    /\ UNCHANGED <<vis_pc, rf_paths, n_threads, preds, images, trainer,
                   deserializer, evaluation, predictions>>

\* An iterator that yields the results as the workers finish.
YieldedAsCompleted(fs, k) ==
    IF \E i \in DOMAIN fs : fs[i].stamp = k + 1
    THEN fs[CHOOSE i \in DOMAIN fs : fs[i].stamp = k + 1].result
    ELSE NoSnapshot

\* The iterator of tp.map after k results: it yields the result of task
\* k + 1 once that task is done, and waits (NoSnapshot) until then.
Yielded(fs, k) ==
    IF fs[k + 1].state = "done" THEN fs[k + 1].result ELSE NoSnapshot

\* preds = list(tp.map(predict_rf, rf_paths)): the next result is collected
Collect ==
    /\ vis_pc = "map"
    /\ Len(preds) < Len(rf_paths)
    /\ Yielded(futures, Len(preds)) # NoSnapshot
    /\ preds' = Append(preds, Yielded(futures, Len(preds)))
    /\ UNCHANGED <<vis_pc, rf_paths, n_threads, futures, images, trainer,
                   deserializer, evaluation, predictions>>

\* for path, pred in zip(rf_paths, preds): v.add_image(pred, name=basename)
AddImages ==
    /\ vis_pc = "map"
    /\ Len(preds) = Len(rf_paths)
    /\ images' = [i \in 1 .. Len(rf_paths) |->
                     [name |-> rf_paths[i], image |-> preds[i]]]
    /\ vis_pc' = "shown"
    /\ UNCHANGED <<rf_paths, n_threads, futures, preds, trainer, deserializer,
                   evaluation, predictions>>

\* The calls a user can make: while none has been made.
Selections ==
    IF vis_pc = "idle"
    THEN {c \in [L : 0 .. MaxPaths, n_forests : 1 .. MaxPaths,
                  sample_random : BOOLEAN, threads : 1 .. MaxThreads] :
             c.sample_random => c.L > 0}
    ELSE {}

NextViewer ==
    \/ \E c \in Selections :
          \E drawn \in (IF c.sample_random
                        THEN [1 .. c.n_forests -> 1 .. c.L] ELSE {<<>>}) :
             VisualizePretrainedRfs(c.L, c.n_forests, c.sample_random, drawn,
                                    c.threads)
    \/ \E i \in DOMAIN futures : Start(i)
    \/ \E i \in DOMAIN futures : Finish(i)
    \/ Collect
    \/ AddImages

SpecViewer == InitAlone /\ [][NextViewer]_vars

\* ---------------------------------------------------------------- claims
InFit == run.active /\ pc \notin {"idle", "dead"}

\* C1: a fit(I) on a fresh trainer with no early stopping never lets the
\* iteration counter pass I, and when it returns the counter is exactly I
\* and exactly ceil(I / B) train/validate cycles were run, B being the
\* number of batches of the training loader.
IterationBudget ==
    (InFit /\ run.fresh /\ early_stopping = None) =>
        /\ iteration <= run.I
        /\ pc = "done" =>
              /\ iteration = run.I
              /\ run.cycles * len_train_loader >= run.I
              /\ run.cycles > 0 => (run.cycles - 1) * len_train_loader < run.I

\* A fresh fit(3) over 2 batches per epoch has returned after 2 cycles, the
\* second cut short by the budget.
IterationBudgetWitness ==
    /\ pc = "done" /\ run.active /\ run.fresh /\ early_stopping = None
    /\ run.I = 3 /\ len_train_loader = 2 /\ run.cycles = 2 /\ iteration = 3

\* C2 as claimed: a fit(I) resumed from a checkpoint recording iteration i0
\* and epoch e0 returns with iteration = i0 + I, and runs no cycle with an
\* epoch index below e0.
ResumeBudgetClaimed ==
    (InFit /\ run.resumed) =>
        /\ epoch >= run.e0
        /\ pc = "done" => iteration = run.i0 + run.I

\* C2 amended: the same, for a run that early stopping does not end.
ResumeBudget ==
    (InFit /\ run.resumed) =>
        /\ epoch >= run.e0
        /\ (pc = "done" /\ ~run.stopped_early) => iteration = run.i0 + run.I

\* A resumed fit has returned, without early stopping, from a checkpoint
\* of a later epoch and iteration.
ResumeBudgetWitness ==
    /\ pc = "done" /\ run.active /\ run.resumed /\ ~run.stopped_early
    /\ run.i0 > 0 /\ run.e0 > 0 /\ run.I > 1 /\ iteration = run.i0 + run.I

\* C3: each time fit writes the "best" slot, the best_metric it records is
\* not above the one recorded by the previous write of the run, and equals
\* the minimum of the validation metrics observed so far in the run.
BestMonotone ==
    (InFit /\ pc = "save_latest" /\ last.op = "save" /\ last.slot = "best") =>
        /\ files["best"].kind = "complete"
        /\ files["best"].data.best_metric <= run.prev_best
        /\ files["best"].data.best_metric = run.min_seen

\* The second write of "best" in one run has just happened.
BestMonotoneWitness ==
    /\ InFit /\ pc = "save_latest" /\ last.op = "save" /\ last.slot = "best"
    /\ run.best_writes = 2 /\ run.prev_best < Inf

\* C4 as claimed: a fit resumed from a checkpoint compares validation
\* metrics against the checkpoint's best_metric, so every "best" it writes
\* records a metric strictly below the checkpoint's best_metric.
ResumeRestoresBestMetric ==
    (InFit /\ run.resumed /\ pc = "save_latest" /\ last.op = "save"
        /\ last.slot = "best") =>
        files["best"].data.best_metric < run.ckpt_best

BestWrittenIffImproved ==
    /\ [](InFit /\ pc = "save_latest" /\ last.op = "save" /\ last.slot = "best"
            => files["best"].data.best_epoch = files["best"].data.epoch)
    /\ [][(pc = "compare" /\ pc' # "dead") =>
            IF current_metric < best_metric
            THEN pc' = "save_open" /\ saving'.name = "best"
                 /\ best_epoch' = epoch /\ best_metric' = current_metric
            ELSE pc' = "save_latest" /\ best_epoch' = best_epoch
                 /\ best_metric' = best_metric /\ files' = files]_vars
    /\ [][(InFit /\ files'["best"] # files["best"]) =>
            pc \in {"save_open", "save_write"} /\ saving.name = "best"]_vars

\* A metric equal to the best so far has been compared and "best" was not
\* written for it.
BestWrittenIffImprovedWitness ==
    /\ InFit /\ pc = "save_latest" /\ last.op = "step"
    /\ current_metric = best_metric /\ run.best_writes = 1 /\ run.cycles = 2

\* C7: in a run, "latest" has been written once for every cycle that has
\* reached its early-stopping check, also in a last cycle cut short by the
\* budget, and right after the write it records the trainer's iteration.
InCycleBeforeLatest ==
    pc \in {"train", "validate", "lr_step", "compare", "save_latest",
            "save_open", "save_write"}

LatestOncePerCycle ==
    InFit =>
        /\ InCycleBeforeLatest => run.latest_writes = run.cycles - 1
        /\ pc \in {"early_stopping", "done"} => run.latest_writes = run.cycles
        /\ pc = "early_stopping" =>
              /\ files["latest"].kind = "complete"
              /\ files["latest"].data.iteration = iteration

\* A run of two cycles, the second cut short by the budget, has returned
\* with two writes of "latest".
LatestOncePerCycleWitness ==
    /\ pc = "done" /\ run.active /\ run.cycles = 2 /\ run.latest_writes = 2
    /\ len_train_loader = 2 /\ run.I = 3 /\ run.best_writes = 2

\* C8: right after a successful load of a slot (load_checkpoint, fit with
\* load_from_checkpoint, from_checkpoint), iteration, epoch, best_epoch and
\* best_metric are those the trainer had when the slot was saved, and the
\* manifest in the file is the init data the saving trainer held.
CheckpointRoundTrip ==
    (last.op \in {"load", "fit", "from_checkpoint"} /\ last.slot \in Slots
        /\ last.result = "ok") =>
        LET s == saved[last.slot] IN
        /\ s # NoSnapshot
        /\ iteration = s.iteration
        /\ epoch = s.epoch
        /\ best_epoch = s.best_epoch
        /\ self_best_metric = s.best_metric
        /\ files[last.slot].data.init = s.init

\* A checkpoint saved after the best epoch has been loaded back.
CheckpointRoundTripWitness ==
    /\ last.op = "load" /\ last.slot = "latest" /\ last.result = "ok"
    /\ iteration > 0 /\ epoch > best_epoch /\ self_best_metric < Inf

\* C9 as claimed: a slot file is never in a partially written state, and no
\* load ever fails on one.
AtomicSlotReplacement ==
    /\ \A s \in Slots : files[s].kind \in {"absent", "complete"}
    /\ last.result # "LoadError"

\* C10 as claimed: a load that fails on a missing field leaves the
\* trainer's counters and component states as they were before it.
LoadAllOrNothing ==
    last.result = "KeyError" => Trainer = last.before

\* C11: a fit of a trainer with every component set that names a slot whose
\* file does not exist warns, leaves the counters and the component states as
\* they were and goes on to train from them with the requested budget; a
\* from_checkpoint on a slot whose file does not exist raises ValueError and
\* leaves no new trainer behind.
ResumeIfPresent ==
    /\ []((last.op = "fit" /\ last.slot \in Slots /\ unset = "none"
            /\ files[last.slot].kind = "absent") =>
            /\ last.result = "warn"
            /\ Trainer = last.before
            /\ run.active /\ ~run.resumed
            /\ run.i0 = last.before.iteration /\ run.e0 = last.before.epoch
            /\ max_iteration = iteration + run.I
            /\ pc = (IF run.I > 0 THEN "train" ELSE "done"))
    /\ []((last.op = "from_checkpoint" /\ files[last.slot].kind = "absent") =>
            last.result = "ValueError")
    /\ [][(last'.op = "from_checkpoint" /\ last'.result = "ValueError") =>
            /\ files[last'.slot].kind = "absent"
            /\ pc' = pc /\ config' = config /\ Trainer' = Trainer
            /\ limits' = limits /\ files' = files]_vars

\* A fit(2) that named the absent slot "latest" has warned and is about to
\* run its first training pass.
ResumeIfPresentWitness ==
    /\ last.op = "fit" /\ last.slot = "latest" /\ last.result = "warn"
    /\ files["latest"].kind = "absent"
    /\ pc = "train" /\ run.I = 2 /\ iteration = 0

\* C13: from the first pass of a fit run until it returns no step lowers
\* iteration or epoch; best_epoch <= epoch holds of the trainer in every
\* state and of every checkpoint record in the folder.
TrainerStateInvariant ==
    /\ [](best_epoch <= epoch)
    /\ [](\A s \in Slots : files[s].kind = "complete" =>
              files[s].data.best_epoch <= files[s].data.epoch)
    /\ [][(InFit /\ pc # "done" /\ pc' # "dead") =>
            iteration' >= iteration /\ epoch' >= epoch]_vars

\* A run is at the end of its third cycle, the best being that of its second
\* cycle, and both slots hold records written in the run.
TrainerStateInvariantWitness ==
    /\ InFit /\ pc = "early_stopping" /\ epoch = 2 /\ best_epoch = 1
    /\ iteration = 3
    /\ files["best"].kind = "complete" /\ files["best"].data.epoch = 1
    /\ files["latest"].kind = "complete" /\ files["latest"].data.epoch = 2
    /\ files["latest"].data.best_epoch = 1

\* C12: no trainer exists with a loader unset, a construction that raises
\* leaves no trainer and changes no file; a fit on a trainer with a required
\* component unset raises AssertionError and changes no counter, no
\* component state, no limit and no file, whatever slot it names.
FailFast ==
    /\ [](pc # "dead" => unset \notin Loaders)
    /\ [][last'.op = "construct" =>
            /\ last'.result = "ValueError"
            /\ pc' = "dead" /\ Trainer' = Trainer /\ files' = files]_vars
    /\ [][(last'.op = "fit" /\ unset # "none") =>
            /\ last'.result = "AssertionError"
            /\ pc' = "idle" /\ ~run'.active
            /\ Trainer' = Trainer /\ limits' = limits /\ files' = files]_vars

\* A new trainer without a model has been asked to fit from the "best" slot
\* that an earlier process wrote, and has raised.
FailFastWitness ==
    /\ last.op = "fit" /\ last.slot = "best" /\ last.result = "AssertionError"
    /\ unset = "model" /\ iteration = 0
    /\ files["best"].kind = "complete" /\ files["best"].data.iteration > 0

\* The names load_generic resolves, and the class a manifest stores for one.
Generic(name) == ~EndsWithLoader(name) /\ name \notin {"device", "__init__"}

StoredClass(init, name) == Get(init, ClassKey(name), NoneValue)

\* C14 as claimed: a name the manifest has is resolved to the stored value;
\* otherwise a name with a stored class is resolved to an instance of it made
\* from the stored kwargs and the caller's arguments; otherwise the result
\* is None for an optional request and RuntimeError for a required one.
ManifestReconstructionClaimed ==
    (loaded # NoSnapshot /\ Generic(loaded.name)) =>
        LET init == load.init_data
            name == loaded.name
            res  == loaded.result
        IN  IF name \in DOMAIN init
            THEN res = [kind |-> "value", value |-> init[name]]
            ELSE IF StoredClass(init, name) # NoneValue
            THEN /\ res.kind = "instance"
                 /\ res.class = StoredClass(init, name)
                 /\ res.args = loaded.dynamic_args
                 /\ \A k \in DOMAIN loaded.dynamic_kwargs :
                        k \in DOMAIN res.kwargs
                 /\ \A k \in DOMAIN Get(init, KwargsKey(name), Empty) :
                        k \in DOMAIN res.kwargs
            ELSE res.kind = (IF loaded.optional THEN "None" ELSE "RuntimeError")

\* C14 amended: the same, except that a request for the class only gets the
\* stored class itself, and that a keyword given both in the stored kwargs
\* and by the caller raises TypeError.
ManifestReconstruction ==
    (loaded # NoSnapshot /\ Generic(loaded.name)) =>
        LET init == load.init_data
            name == loaded.name
            res  == loaded.result
            kwargs == Get(init, KwargsKey(name), Empty)
        IN  IF name \in DOMAIN init
            THEN res = [kind |-> "value", value |-> init[name]]
            ELSE IF StoredClass(init, name) # NoneValue
            THEN IF loaded.only_class
                 THEN res = [kind |-> "class", class |-> StoredClass(init, name)]
                 ELSE IF \E k \in DOMAIN kwargs : k \in DOMAIN loaded.dynamic_kwargs
                 THEN res.kind = "TypeError"
                 ELSE /\ res.kind = "instance"
                      /\ res.class = StoredClass(init, name)
                      /\ res.args = loaded.dynamic_args
                      /\ DOMAIN res.kwargs =
                            DOMAIN kwargs \cup DOMAIN loaded.dynamic_kwargs
                      /\ \A k \in DOMAIN kwargs : res.kwargs[k] = kwargs[k]
                      /\ \A k \in DOMAIN loaded.dynamic_kwargs :
                            res.kwargs[k] = loaded.dynamic_kwargs[k]
            ELSE res.kind = (IF loaded.optional THEN "None" ELSE "RuntimeError")

\* An optional scheduler without an entry has resolved to None from a
\* manifest that holds the model's class and kwargs.
ManifestReconstructionWitness ==
    /\ loaded # NoSnapshot /\ loaded.name = "lr_scheduler" /\ loaded.optional
    /\ loaded.dynamic_args = <<"optimizer">>
    /\ loaded.result.kind = "None"
    /\ "lr_scheduler_class" \notin DOMAIN load.init_data
    /\ "model_kwargs" \in DOMAIN load.init_data

\* C15: with a cache store configured, a request of a key that was requested
\* before, in this call or in an earlier one on the same save_path, returns
\* the array the first request returned, and the forest or enhancer behind
\* the key has been invoked at most once by the requests that returned it.
CacheIdempotence ==
    seen.lookup # NoSnapshot =>
        /\ seen.lookup.array = seen.first[seen.lookup.name]
        /\ seen.invoked[seen.lookup.name] <= 1

\* A second call has requested a key the first call had stored.
CacheIdempotenceWitness ==
    /\ evals = 2
    /\ seen.lookup # NoSnapshot
    /\ seen.lookup.name \in DOMAIN seen.before
    /\ seen.invoked[seen.lookup.name] = 1

\* C16: every stored array is the one written when its key was first
\* computed; no step overwrites or deletes an entry; a lookup of an existing
\* key returns the stored array; a step in which a predictor raises leaves
\* the cache as it was.
WriteOnceStep ==
    /\ \A k \in DOMAIN store : k \in DOMAIN store' /\ store'[k] = store[k]
    /\ (ev_pc' = "raised" /\ ev_pc # "raised") => store' = store
    /\ (seen'.lookup # seen.lookup /\ seen'.lookup # NoSnapshot
            /\ seen'.lookup.name \in DOMAIN store)
         => seen'.lookup.array = store[seen'.lookup.name]

CacheWriteOnce ==
    /\ [](\A k \in DOMAIN store : store[k] = seen.first[k])
    /\ [][WriteOnceStep]_vars

\* A predictor raised in a call that found entries in the cache and had
\* added one.
CacheWriteOnceWitness ==
    /\ ev_pc = "raised"
    /\ outcome = Raised("PredictionError")
    /\ seen.before # Empty
    /\ DOMAIN store # DOMAIN seen.before

\* The columns of a table other than the label column.
ScoreColumns(t) == {c \in 1 .. Len(t.columns) : t.columns[c] # "enhancer"}

\* C17: the table evaluate_enhancers returns has E+1 rows, one score column
\* per forest, and a label column "enhancer" holding the names of the
\* enhancers and "rf-score", in the 2D, the 3D whole-volume and the 3D
\* per-slice mode.
ScoreTableShape ==
    ev_pc = "returned" =>
        /\ Len(outcome.values) = args.enhancers + 1
        /\ Cardinality(ScoreColumns(outcome)) = args.forests
        /\ {outcome.columns[c] : c \in ScoreColumns(outcome)}
             = {ForestName(args, i) : i \in 1 .. args.forests}
        /\ \E c \in 1 .. Len(outcome.columns) :
             /\ outcome.columns[c] = "enhancer"
             /\ \A r \in 1 .. Len(outcome.values) :
                   /\ Len(outcome.values[r]) = Len(outcome.columns)
                   /\ outcome.values[r][c] = RowLabel(args, r)

\* The score of row r (an enhancer, or the baseline in the last row) for
\* forest c on slice z, taken on data[z] against labels[z].
SliceScore(a, z, r, c) ==
    LET rf == Rf(c, Data(a, z), a.extra)
    IN  IF r <= a.enhancers
        THEN Metric(Index0(Enh(r, InsertAxes(rf, Axes(a, z)))), Labels(a, z))
        ELSE Metric(rf, Labels(a, z))

RECURSIVE SumOverSlices(_, _, _, _)
SumOverSlices(a, n, r, c) ==
    IF n = 0 THEN 0
    ELSE SliceScore(a, n - 1, r, c) + SumOverSlices(a, n - 1, r, c)

\* C18: for 3D data with is2d set and Z slices, a call that returns has run
\* exactly Z scoring passes, has scored every slice z on data[z] against
\* labels[z], and every entry of the returned table is the sum of the Z
\* per-slice scores of its row and forest divided by Z.
PerSliceAveraging ==
    (ev_pc = "returned" /\ args.ndim = 3 /\ args.is2d) =>
        /\ seen.passes = args.slices
        /\ seen.scored =
             {[z |-> z, row |-> r, forest |-> c,
               score |-> SliceScore(args, z, r, c)] :
                 z \in 0 .. args.slices - 1, r \in 1 .. args.enhancers + 1,
                 c \in 1 .. args.forests}
        /\ Len(outcome.values) = args.enhancers + 1
        /\ \A r \in 1 .. args.enhancers + 1 :
             /\ outcome.index[r] = RowLabel(args, r)
             /\ \A c \in 1 .. args.forests :
                   outcome.values[r][c] =
                       [sum |-> SumOverSlices(args, args.slices, r, c),
                        n |-> args.slices]

\* A per-slice evaluation of several slices, enhancers and forests returned.
PerSliceAveragingWitness ==
    /\ ev_pc = "returned"
    /\ args.ndim = 3 /\ args.is2d
    /\ args.slices = MaxSlices
    /\ args.enhancers = MaxEnhancers /\ args.forests = MaxForests
    /\ seen.passes = MaxSlices

\* C19: every forest prediction handed to an enhancer or to the
\* prediction_function has len(axes) + 2 dimensions, with or without a
\* cache, computed or read from the cache.
EnhancerInputShaping ==
    \A h \in seen.handed : h.ndim = h.axes + 2

\* C20: a call with data that is not 2D or 3D, for either is2d, or whose
\* shape is not the shape of the labels, raises with no forest, enhancer or
\* metric invoked, no cache file opened and the cache as the call found it.
InvalidInputFailsFast ==
    (args # NoSnapshot /\ Invalid(args)) =>
        /\ ev_pc = "raised"
        /\ outcome \in {Raised("AssertionError"), Raised("ValueError")}
        /\ seen.calls = 0 /\ seen.handed = {} /\ seen.scored = {}
        /\ handles = 0
        /\ store = seen.before

\* 4D data of the shape of the labels was passed with is2d and a save_path.
InvalidInputFailsFastWitness ==
    /\ ev_pc = "raised"
    /\ args # NoSnapshot
    /\ args.ndim = 4 /\ args.is2d /\ args.same_shape
    /\ args.forests > 0
    /\ save_path = "cache"

\* C21: the cache file is open exactly while one lookup is inside its
\* with-block: never two handles, none between lookups, none after a
\* return or after an error of the predictor, the enhancer or the write;
\* and a call that returns has opened the file once per lookup.
ScopedCacheAccess ==
    /\ handles = (IF ev_pc \in {"rf_file", "enh_file"} THEN 1 ELSE 0)
    /\ (ev_pc = "returned" /\ save_path # "none") =>
           seen.opens = seen.passes * args.forests * (1 + args.enhancers)
    /\ save_path = "none" => seen.opens = 0

\* A write to the cache has raised after an earlier lookup of the same call
\* had closed the file.
ScopedCacheAccessWitness ==
    /\ ev_pc = "raised"
    /\ outcome = Raised("WriteError")
    /\ seen.opens > 1
    /\ handles = 0

\* C22: the keys one evaluation requests are "{forest}" and
\* "{enhancer}/{forest}", with a "/{z:04}" segment per slice; two different
\* computations never request the same key, and no requested key is a path
\* prefix of another one.
CacheKeyLayout ==
    \A p, q \in seen.requested :
        /\ p.key = (IF p.kind = "forest" THEN <<ForestName(args, p.forest)>>
                    ELSE <<EnhancerName(p.enhancer), ForestName(args, p.forest)>>)
                   \o (IF p.z = None THEN <<>> ELSE <<Pad4(p.z)>>)
        /\ p.key = q.key => p = q
        /\ p.key # q.key => ~IsPrefix(p.key, q.key)

\* The keys under which the store holds slices of name: name followed by
\* one segment that is a number.
SlicesOf(f, name) ==
    {k \in DOMAIN f : Len(k) = Len(name) + 1 /\ IsPrefix(name, k)
                        /\ IntOf(k[Len(k)]) # None}

\* vol is the slices the store holds of name, stacked by increasing number
\* along a new leading axis.
IsStacked(vol, f, name) ==
    \E ks \in {SlicesOf(f, name)} :
        /\ Len(vol.stack) = Cardinality(ks)
        /\ \A k \in ks :
              /\ vol.ndim = f[k].ndim + 1
              /\ vol.stack[Cardinality({j \in ks : IntOf(j[Len(j)])
                                                     < IntOf(k[Len(k)])}) + 1]
                    = f[k]

ParallelOrder ==
    /\ [](\A i \in 1 .. Len(preds) : preds[i] = PredictRf(rf_paths[i]))
    /\ [](vis_pc = "shown" =>
            /\ Len(images) = Len(rf_paths)
            /\ \A i \in 1 .. Len(images) :
                  images[i].image = PredictRf(images[i].name))
    /\ [][\A i \in DOMAIN futures :
            (i \in DOMAIN futures' /\ futures'[i] # futures[i]) =>
                /\ \A j \in DOMAIN futures \ {i} : futures'[j] = futures[j]
                /\ preds' = preds /\ images' = images
                /\ rf_paths' = rf_paths]_vars

\* Forests at different paths were shown after a later task had finished
\* before an earlier one.
ParallelOrderWitness ==
    /\ vis_pc = "shown"
    /\ Len(images) > 1
    /\ \E i, j \in DOMAIN futures :
          /\ i < j /\ futures[j].stamp < futures[i].stamp
          /\ rf_paths[i] # rf_paths[j]

\* The scoring passes of the call: the whole array, or its slices.
PassesOf(a) == IF Mode(a) = "chunk" THEN {None} ELSE 0 .. a.slices - 1

\* C25: without a cache nothing is memoized: the store is left as it is, no
\* predictor is invoked twice for the same pass, a call that returns has
\* invoked every forest once in every pass and every enhancer once per
\* forest and pass, whether it is the first call or a repeated one, and
\* the array scored for an enhancer is the enhancer's result on the
\* forest prediction without its leading (batch) axis.
NoMemoization ==
    /\ [](save_path = "none" =>
            \A k \in DOMAIN seen.uncached : seen.uncached[k] = 1)
    /\ []((save_path = "none" /\ ev_pc = "returned") =>
            DOMAIN seen.uncached =
                [enhancer : 0 .. args.enhancers, forest : 1 .. args.forests,
                 z : PassesOf(args)])
    /\ []((save_path = "none" /\ ev_pc = "score") =>
            /\ pred.ndim = rf_pred.ndim - 1
            /\ pred.val = Enh(enhancer_j, rf_pred).val)
    /\ [][save_path' = "none" =>
            /\ store' = store
            /\ seen'.invoked = seen.invoked /\ seen'.first = seen.first]_vars

\* A second call without a cache, after a first one that used no cache
\* either, has returned after more than one pass over forests and enhancers.
NoMemoizationWitness ==
    /\ save_path = "none" /\ ev_pc = "returned" /\ evals = 2
    /\ store = Empty /\ seen.first = Empty
    /\ args.enhancers > 0 /\ args.forests > 1
    /\ Cardinality(PassesOf(args)) > 1
    /\ \A k \in DOMAIN seen.uncached : seen.uncached[k] = 1
    /\ Cardinality(DOMAIN seen.uncached) > 3

\* The step of the cycle fit is at: the slot while a checkpoint is written.
Stage == IF pc \in {"save_open", "save_write"} THEN saving.name ELSE pc

\* The order of the steps of one cycle of fit (default_trainer.py:334-356).
CycleSteps ==
    {<<"train", "validate">>, <<"validate", "lr_step">>,
     <<"lr_step", "compare">>, <<"compare", "best">>,
     <<"compare", "save_latest">>, <<"best", "save_latest">>,
     <<"save_latest", "latest">>, <<"latest", "early_stopping">>,
     <<"early_stopping", "train">>, <<"early_stopping", "done">>}

InCycle == pc \notin {"dead", "idle", "done"}

\* C26: within fit every cycle runs the training pass to its end (the last
\* batch, or the batch that exhausts the iteration budget), then the
\* validation pass, the scheduler step, the update of the best with the
\* write of "best", the write of "latest", the early-stopping check and the
\* increment of epoch, in this order; "best" is written before the
\* "latest" of its cycle; and both checkpoints record the epoch index
\* before the increment and the scheduler state after the cycle's step.
CycleOrder ==
    /\ [][(InCycle /\ Stage' # Stage) =>
            /\ <<Stage, Stage'>> \in CycleSteps
            /\ Stage = "train" =>
                   (iteration' >= max_iteration \/ batch + 1 = len_train_loader)
            /\ epoch' # epoch => (Stage = "early_stopping" /\ epoch' = epoch + 1)
            /\ Stage' = "train" => epoch' = epoch + 1
            /\ scheduler_state' # scheduler_state =>
                   (Stage = "lr_step" /\ lr_scheduler)
            /\ (Stage = "lr_step" /\ lr_scheduler) =>
                   scheduler_state' # scheduler_state
            /\ best_epoch' # best_epoch => Stage = "compare"]_vars
    /\ [][(InCycle /\ Stage' = Stage) =>
            (epoch' = epoch /\ scheduler_state' = scheduler_state
             /\ best_epoch' = best_epoch)]_vars
    /\ []((InCycle /\ Stage = "best") => run.latest_writes = run.cycles - 1)
    /\ [][(InCycle /\ pc = "save_write") =>
            /\ files'[saving.name].kind = "complete"
            /\ files'[saving.name].data.epoch = run.e0 + run.cycles - 1
            /\ epoch' = run.e0 + run.cycles - 1
            /\ lr_scheduler =>
                   files'[saving.name].data.scheduler_state = run.sched0 + 1]_vars

\* A run with a scheduler has ended after two cycles that wrote "best" and
\* "latest": "latest" records the index of the last cycle.
CycleOrderWitness ==
    /\ pc = "done" /\ lr_scheduler
    /\ run.cycles >= 2 /\ run.best_writes >= 1 /\ run.latest_writes >= 2
    /\ files["latest"].kind = "complete"
    /\ files["latest"].data.epoch = run.e0 + run.cycles - 1
    /\ files["latest"].data.scheduler_state = run.sched0 + 1
    /\ files["best"].kind = "complete"

\* C27: when a fit run that executed at least one cycle has returned, the
\* iteration, epoch and best_epoch recorded in "latest" are the trainer's.
LatestMatchesAtReturn ==
    (pc = "done" /\ run.active /\ run.cycles >= 1) =>
        /\ files["latest"].kind = "complete"
        /\ files["latest"].data.iteration = iteration
        /\ files["latest"].data.epoch = epoch
        /\ files["latest"].data.best_epoch = best_epoch

\* C28: when fit has returned, epoch minus the epoch at the start of the
\* run is the number of cycles the run executed, whether the budget or
\* early stopping ended it.
EpochCountsCycles ==
    (pc = "done" /\ run.active) => epoch - run.e0 = run.cycles

\* C29: a call without a cache, made with the data, labels, enhancers,
\* forests and metric of a call that began with an empty cache and
\* returned, passes arrays of the same number of dimensions to every
\* enhancer and to the metric, for the enhancer rows and for the baseline
\* row, and returns the same table.
CachingKeepsResults ==
    (save_path = "none" /\ seen.prior # NoSnapshot) =>
        /\ seen.shapes \subseteq seen.prior.shapes
        /\ ev_pc = "returned" =>
               (seen.shapes = seen.prior.shapes /\ outcome = seen.prior.outcome)
====
